---- MODULE Spec2Model ----
(***************************************************************************)
(* Reversi engine of enanog/G2-EDAversi: bitboard move generation and     *)
(* flipping (src/model.cpp), Zobrist hashing and the transposition table  *)
(* (src/ai/transposition_table.cpp), and the AI tiers (src/ai/).          *)
(*                                                                         *)
(* A 64-bit word (uint64_t bitboard or hash) is modelled as the set of    *)
(* the indices of its set bits, a subset of 0..63: | is \cup, & is \cap,  *)
(* ~ is complement in 0..63, ^ is symmetric difference, and a shift moves *)
(* every index and drops those leaving 0..63.                             *)
(***************************************************************************)
EXTENDS Integers, Sequences, FiniteSets, TLC

Squares == 0 .. 63

PLAYER_BLACK == 0
PLAYER_WHITE == 1
MOVE_NONE == -1

\* enum { NW, N, NE, W, E, SW, S, SE, NONE }
NW == 0
N == 1
NE == 2
W == 3
E == 4
SW == 5
S == 6
SE == 7
NONE == 8
DIRECTION_COUNT == 8

\* Bitboard masks, as the sets of their set bits.
FILE_A == {0, 8, 16, 24, 32, 40, 48, 56}
FILE_H == {7, 15, 23, 31, 39, 47, 55, 63}
RANK_1 == {0, 1, 2, 3, 4, 5, 6, 7}
RANK_8 == {56, 57, 58, 59, 60, 61, 62, 63}
CORNERS == {0, 7, 56, 63}
X_SQUARES == {9, 14, 57, 62}
EDGES == {1, 2, 3, 4, 5, 6, 8, 15, 16, 23, 24, 31, 32, 39, 40, 47, 48, 55,
          57, 58, 59, 60, 61, 62}

DIRECTIONS == <<9, 8, 7, 1, -1, -7, -8, -9>>

\* initialPosition[0] are the black discs, initialPosition[1] the white ones.
initialPosition == <<{35, 28}, {27, 36}>>

(***************************************************************************)
(* Bitboard engine                                                         *)
(***************************************************************************)
getOpponent(player) ==
  IF player = PLAYER_BLACK THEN PLAYER_WHITE ELSE PLAYER_BLACK

getPlayerBitboard(board, player) ==
  IF player = PLAYER_BLACK THEN board.black ELSE board.white

getOpponentBitboard(board, player) ==
  IF player = PLAYER_BLACK THEN board.white ELSE board.black

getEmptyBitboard(board) == Squares \ (board.black \cup board.white)

countBits(bitmap) == Cardinality(bitmap)

\* Index of the lowest set bit; callers test the mask for zero first.
bitScanForward(bb) == CHOOSE i \in bb : \A j \in bb : i <= j

getDiscCount(board) == countBits(board.black \cup board.white)

getEmptyCount(board) == 64 - getDiscCount(board)

\* isSquareValid without the file and rank tests.
isSquareValid_RangeOnly(pos, dir) == pos >= 0 /\ pos < 64

isSquareValid(pos, dir) ==
  IF pos < 0 \/ pos >= 64 THEN FALSE
  ELSE IF dir = NONE THEN TRUE
  ELSE IF dir \in {W, NW, SW} /\ pos \in FILE_A THEN FALSE
  ELSE IF dir \in {E, NE, SE} /\ pos \in FILE_H THEN FALSE
  ELSE IF dir \in {N, NW, NE} /\ pos \in RANK_1 THEN FALSE
  ELSE IF dir \in {S, SW, SE} /\ pos \in RANK_8 THEN FALSE
  ELSE TRUE

RECURSIVE FlipWalk(_, _, _, _, _, _)
FlipWalk(player, opponent, curPos, step, dir, flips) ==
  IF ~isSquareValid(curPos, dir) THEN {}
  ELSE IF curPos \in opponent
         THEN FlipWalk(player, opponent, curPos + step, step, dir,
                       flips \cup {curPos})
  ELSE IF curPos \in player THEN flips
  ELSE {}

getFlipsInDirection(player, opponent, startPos, step, dir) ==
  FlipWalk(player, opponent, startPos + step, step, dir, {})

shiftN(bb) == {i - 8 : i \in {j \in bb : j >= 8}}
shiftS(bb) == {i + 8 : i \in {j \in bb : j + 8 <= 63}}
shiftE(bb) == {i + 1 : i \in bb \ FILE_H}
shiftW(bb) == {i - 1 : i \in bb \ FILE_A}
shiftNE(bb) == {i - 7 : i \in {j \in bb \ FILE_H : j >= 7}}
shiftNW(bb) == {i - 9 : i \in {j \in bb \ FILE_A : j >= 9}}
shiftSE(bb) == {i + 9 : i \in {j \in bb \ FILE_H : j + 9 <= 63}}
shiftSW(bb) == {i + 7 : i \in {j \in bb \ FILE_A : j + 7 <= 63}}

\* A call through the function pointer shiftFunc, named by its target.
CallShift(shiftFunc, bb) ==
  CASE shiftFunc = "shiftN" -> shiftN(bb)
    [] shiftFunc = "shiftS" -> shiftS(bb)
    [] shiftFunc = "shiftE" -> shiftE(bb)
    [] shiftFunc = "shiftW" -> shiftW(bb)
    [] shiftFunc = "shiftNE" -> shiftNE(bb)
    [] shiftFunc = "shiftNW" -> shiftNW(bb)
    [] shiftFunc = "shiftSE" -> shiftSE(bb)
    [] shiftFunc = "shiftSW" -> shiftSW(bb)

\* The candidates after n more rounds of the propagation of
\* generateMovesInDirection.
RECURSIVE ExtendCandidates(_, _, _, _)
ExtendCandidates(candidates, opponent, shiftFunc, n) ==
  IF n = 0 THEN candidates
  ELSE ExtendCandidates(
         candidates \cup (CallShift(shiftFunc, candidates) \cap opponent),
         opponent, shiftFunc, n - 1)

generateMovesInDirection(player, opponent, shiftFunc) ==
  LET empty == Squares \ (player \cup opponent)
      candidates == ExtendCandidates(CallShift(shiftFunc, player) \cap opponent,
                                     opponent, shiftFunc, 5)
  IN  CallShift(shiftFunc, candidates) \cap empty

\* getValidMovesBitmap without the two vertical directions.
getValidMovesBitmap_NoVertical(player, opponent) ==
  generateMovesInDirection(player, opponent, "shiftE")
    \cup generateMovesInDirection(player, opponent, "shiftW")
    \cup generateMovesInDirection(player, opponent, "shiftNE")
    \cup generateMovesInDirection(player, opponent, "shiftNW")
    \cup generateMovesInDirection(player, opponent, "shiftSE")
    \cup generateMovesInDirection(player, opponent, "shiftSW")

getValidMovesBitmap(player, opponent) ==
  generateMovesInDirection(player, opponent, "shiftN")
    \cup generateMovesInDirection(player, opponent, "shiftS")
    \cup generateMovesInDirection(player, opponent, "shiftE")
    \cup generateMovesInDirection(player, opponent, "shiftW")
    \cup generateMovesInDirection(player, opponent, "shiftNE")
    \cup generateMovesInDirection(player, opponent, "shiftNW")
    \cup generateMovesInDirection(player, opponent, "shiftSE")
    \cup generateMovesInDirection(player, opponent, "shiftSW")

calculateFlips(player, opponent, move) ==
  UNION {getFlipsInDirection(player, opponent, move, DIRECTIONS[dir + 1], dir)
           : dir \in 0 .. DIRECTION_COUNT - 1}

\* The loop "n = bitScanForward(bb); push_back(n); bb &= bb - 1".
RECURSIVE BitmapToMoves(_)
BitmapToMoves(bb) ==
  IF bb = {} THEN <<>>
  ELSE LET n == bitScanForward(bb) IN <<n>> \o BitmapToMoves(bb \ {n})

getValidMovesAI(board, player) ==
  BitmapToMoves(getValidMovesBitmap(getPlayerBitboard(board, player),
                                    getOpponentBitboard(board, player)))

hasValidMoves(board, player) ==
  getValidMovesBitmap(getPlayerBitboard(board, player),
                      getOpponentBitboard(board, player)) # {}

\* isTerminal looking at the side to move only.
isTerminal_OneSide(board, player) == ~hasValidMoves(board, player)

isTerminal(board, player) ==
  IF hasValidMoves(board, player) THEN FALSE
  ELSE ~hasValidMoves(board, getOpponent(player))

getScoreDiff(board, player) ==
  countBits(getPlayerBitboard(board, player))
    - countBits(getOpponentBitboard(board, player))

getMoveCount(board, player) ==
  countBits(getValidMovesBitmap(getPlayerBitboard(board, player),
                                getOpponentBitboard(board, player)))

\* Returns the snapshot `state` together with the updated reference arguments.
makeMove(board, currentPlayer, move) ==
  LET state == [black |-> board.black, white |-> board.white,
                player |-> currentPlayer]
      player == IF currentPlayer = PLAYER_BLACK THEN board.black ELSE board.white
      opponent == IF currentPlayer = PLAYER_BLACK THEN board.white ELSE board.black
      flips == calculateFlips(player, opponent, move)
      moveBit == {move}
  IN  [state |-> state,
       board |-> IF currentPlayer = PLAYER_BLACK
                   THEN [black |-> board.black \cup moveBit \cup flips,
                         white |-> board.white \ flips]
                   ELSE [black |-> board.black \ flips,
                         white |-> board.white \cup moveBit \cup flips],
       currentPlayer |-> IF currentPlayer = PLAYER_BLACK
                           THEN PLAYER_WHITE ELSE PLAYER_BLACK]

\* unmakeMove without "currentPlayer = state.player".
unmakeMove_KeepsPlayer(board, currentPlayer, state) ==
  [board |-> [black |-> state.black, white |-> state.white],
   currentPlayer |-> currentPlayer]

unmakeMove(board, currentPlayer, state) ==
  [board |-> [black |-> state.black, white |-> state.white],
   currentPlayer |-> state.player]

(***************************************************************************)
(* Game model (GameModel without its timers)                               *)
(***************************************************************************)
initModel(currentPlayer) ==
  [gameOver |-> TRUE, board |-> [black |-> {}, white |-> {}],
   currentPlayer |-> currentPlayer]

startModel(m) ==
  [gameOver |-> FALSE,
   board |-> [black |-> initialPosition[1], white |-> initialPosition[2]],
   currentPlayer |-> PLAYER_BLACK]

getCurrentPlayer(m) == m.currentPlayer

\* getValidMoves fills a list of squares (x, y) in bit-scan order; the AI
\* tiers read it back as bit indices x + (y << 3).
getValidMoves(m) ==
  LET bits == BitmapToMoves(
                getValidMovesBitmap(getPlayerBitboard(m.board, m.currentPlayer),
                                    getOpponentBitboard(m.board, m.currentPlayer)))
  IN  [i \in 1 .. Len(bits) |-> (bits[i] % 8) + ((bits[i] \div 8) * 8)]

\* playMove without the test of the next side's moves: the turn always
\* goes to the opponent.
playMove_AlwaysSwaps(m, move) ==
  LET currentPlayer == getCurrentPlayer(m)
      player == IF currentPlayer = PLAYER_BLACK THEN m.board.black ELSE m.board.white
      opponent == IF currentPlayer = PLAYER_BLACK THEN m.board.white ELSE m.board.black
      flips == calculateFlips(player, opponent, move)
      placed == IF currentPlayer = PLAYER_BLACK
                  THEN [black |-> m.board.black \cup {move} \cup flips,
                        white |-> m.board.white \ flips]
                  ELSE [black |-> m.board.black \ flips,
                        white |-> m.board.white \cup {move} \cup flips]
  IN  [model |-> [m EXCEPT !.board = placed,
                           !.currentPlayer = getOpponent(m.currentPlayer)],
       ret |-> TRUE]

\* Returns the updated model together with the bool the function returns.
playMove(m, move) ==
  LET currentPlayer == getCurrentPlayer(m)
      player == IF currentPlayer = PLAYER_BLACK THEN m.board.black ELSE m.board.white
      opponent == IF currentPlayer = PLAYER_BLACK THEN m.board.white ELSE m.board.black
      flips == calculateFlips(player, opponent, move)
      moveBit == {move}
      placed == IF currentPlayer = PLAYER_BLACK
                  THEN [black |-> m.board.black \cup moveBit \cup flips,
                        white |-> m.board.white \ flips]
                  ELSE [black |-> m.board.black \ flips,
                        white |-> m.board.white \cup moveBit \cup flips]
      swapped == [m EXCEPT !.board = placed,
                           !.currentPlayer = getOpponent(m.currentPlayer)]
      back == [swapped EXCEPT !.currentPlayer = m.currentPlayer]
  IN  IF Len(getValidMoves(swapped)) = 0
        THEN IF Len(getValidMoves(back)) = 0
               THEN [model |-> [back EXCEPT !.gameOver = TRUE], ret |-> TRUE]
               ELSE [model |-> back, ret |-> TRUE]
        ELSE [model |-> swapped, ret |-> TRUE]

(***************************************************************************)
(* Zobrist hashing.  The constants are the first 129 outputs of           *)
(* std::mt19937_64 seeded with 0x123456789ABCDEF, in the order initZobrist *)
(* draws them: 64 for black, 64 for white, one for the side to move.      *)
(***************************************************************************)
zobristBlack ==
  <<{2, 5, 8, 9, 10, 12, 15, 17, 18, 19, 20, 23, 24, 25, 29, 30, 32, 34, 38, 41, 42, 44, 48, 49, 54, 55, 57, 58, 60, 61, 63},
    {1, 5, 7, 10, 11, 14, 16, 17, 18, 20, 21, 22, 23, 26, 29, 35, 36, 38, 39, 40, 41, 43, 46, 50, 51, 52, 53, 55, 58},
    {1, 12, 14, 17, 18, 19, 27, 28, 30, 31, 32, 33, 35, 36, 37, 38, 39, 41, 43, 44, 45, 47, 49, 50, 51, 52, 57, 58, 59, 60, 61, 62},
    {0, 1, 2, 7, 9, 13, 16, 17, 19, 21, 23, 25, 27, 28, 32, 33, 36, 37, 38, 39, 40, 41, 42, 46, 50, 53, 58, 62, 63},
    {1, 6, 9, 10, 12, 14, 17, 18, 20, 24, 26, 28, 30, 31, 38, 41, 42, 43, 44, 48, 49, 50, 52, 53, 54, 60, 63},
    {0, 2, 3, 4, 5, 6, 8, 10, 11, 12, 16, 19, 20, 21, 22, 23, 25, 26, 30, 31, 32, 36, 38, 45, 46, 47, 48, 49, 51, 52, 53, 56, 57, 58, 59, 60, 62, 63},
    {3, 4, 5, 6, 9, 10, 11, 12, 16, 17, 18, 19, 22, 24, 26, 27, 30, 32, 35, 37, 40, 42, 44, 45, 46, 47, 49, 50, 53, 54, 55, 59, 61, 62, 63},
    {0, 1, 2, 4, 5, 6, 7, 9, 13, 15, 20, 21, 26, 28, 30, 33, 35, 36, 39, 42, 45, 46, 47, 48, 52, 54, 56, 57, 61, 62, 63},
    {0, 6, 7, 8, 13, 14, 16, 17, 20, 22, 23, 26, 28, 31, 33, 34, 35, 36, 37, 39, 41, 46, 47, 49, 50, 53, 55, 58, 61},
    {0, 1, 5, 7, 10, 11, 12, 13, 15, 17, 20, 23, 24, 26, 28, 33, 35, 36, 39, 40, 41, 42, 44, 46, 47, 49, 51, 53, 54, 57, 59, 61, 62, 63},
    {0, 1, 2, 4, 6, 7, 8, 9, 10, 12, 13, 14, 15, 16, 19, 20, 23, 24, 25, 26, 27, 28, 31, 32, 36, 37, 38, 39, 44, 45, 46, 48, 51, 52, 54, 55, 56, 57, 58, 62, 63},
    {4, 5, 6, 10, 14, 16, 18, 19, 20, 21, 22, 25, 26, 27, 28, 29, 32, 33, 35, 36, 38, 41, 43, 44, 45, 46, 48, 50, 51, 53, 54, 55, 56, 58},
    {1, 3, 5, 6, 7, 11, 12, 14, 15, 18, 19, 21, 23, 24, 25, 27, 28, 36, 37, 40, 41, 42, 45, 46, 47, 50, 52, 55, 57, 59, 60, 61, 63},
    {0, 1, 5, 6, 13, 15, 18, 21, 22, 27, 29, 30, 32, 33, 36, 39, 40, 41, 43, 46, 51, 52, 53, 54, 55, 57, 58},
    {1, 2, 6, 7, 9, 14, 17, 18, 20, 21, 22, 28, 30, 33, 34, 35, 36, 37, 38, 40, 42, 48, 50, 51, 53, 55, 59, 61, 62},
    {0, 2, 3, 4, 5, 7, 9, 12, 13, 14, 15, 16, 18, 20, 23, 24, 25, 26, 29, 30, 31, 40, 42, 43, 44, 51, 53, 56, 57, 58, 59, 62},
    {2, 4, 5, 9, 12, 13, 16, 17, 18, 19, 21, 22, 23, 25, 26, 27, 28, 29, 31, 32, 34, 35, 39, 41, 42, 44, 49, 50, 52, 53, 56, 58, 62},
    {3, 4, 5, 6, 8, 10, 11, 12, 13, 15, 16, 20, 22, 24, 26, 28, 30, 33, 34, 41, 43, 44, 49, 50, 53, 54, 57, 58, 60, 63},
    {1, 5, 6, 7, 9, 10, 12, 14, 17, 20, 25, 28, 30, 31, 34, 36, 37, 38, 43, 44, 46, 48, 54, 55, 58, 59, 60, 62},
    {0, 2, 6, 8, 9, 10, 12, 13, 15, 16, 17, 20, 22, 23, 24, 29, 30, 31, 36, 37, 40, 44, 45, 48, 50, 51, 52, 53, 57, 59, 62, 63},
    {0, 3, 4, 5, 7, 8, 9, 10, 11, 12, 14, 15, 22, 28, 32, 33, 34, 37, 38, 39, 41, 48, 51, 52, 53, 54, 56, 58, 59, 60, 61, 62},
    {0, 3, 6, 9, 10, 14, 16, 19, 20, 21, 22, 24, 26, 27, 33, 35, 37, 38, 39, 41, 42, 43, 44, 45, 46, 47, 48, 50, 51, 53, 54, 57, 58},
    {1, 4, 15, 16, 17, 19, 21, 23, 25, 26, 28, 30, 31, 36, 37, 38, 39, 40, 46, 47, 50, 51, 54, 57, 59, 61, 62, 63},
    {0, 1, 2, 3, 4, 6, 8, 9, 10, 12, 13, 14, 16, 18, 20, 23, 24, 25, 27, 29, 32, 36, 37, 38, 41, 42, 47, 49, 51, 53},
    {1, 4, 5, 9, 10, 11, 12, 14, 15, 17, 20, 21, 23, 24, 25, 26, 27, 29, 30, 33, 34, 36, 37, 38, 40, 41, 46, 47, 49, 51, 52, 53, 55, 60, 62},
    {0, 1, 2, 4, 5, 7, 12, 13, 15, 16, 17, 18, 20, 23, 24, 26, 28, 29, 30, 31, 34, 36, 39, 40, 41, 42, 43, 44, 46, 47, 49, 50, 51, 52, 53, 54, 56, 57, 58, 60, 61, 62, 63},
    {0, 2, 3, 5, 8, 9, 11, 13, 14, 20, 21, 22, 28, 29, 30, 31, 33, 34, 35, 36, 38, 39, 40, 42, 43, 44, 46, 49, 50, 52, 54, 58, 62, 63},
    {1, 3, 4, 8, 10, 11, 17, 18, 19, 20, 21, 22, 25, 27, 28, 29, 30, 32, 35, 36, 37, 39, 41, 46, 49, 50, 52, 54, 55, 58, 60, 63},
    {0, 2, 3, 5, 11, 12, 15, 16, 18, 23, 26, 27, 29, 31, 34, 36, 37, 38, 39, 40, 42, 44, 50, 53, 54, 57, 58, 59, 60, 61, 62},
    {0, 1, 2, 3, 7, 15, 19, 20, 24, 26, 28, 31, 33, 35, 37, 38, 40, 41, 42, 44, 47, 48, 50, 52, 54, 55, 56, 57, 59, 62},
    {1, 2, 3, 5, 6, 10, 11, 13, 15, 16, 17, 20, 22, 25, 27, 34, 36, 37, 38, 43, 45, 48, 49, 52, 53, 54, 56, 58, 59, 61},
    {0, 1, 2, 3, 8, 10, 11, 12, 13, 14, 15, 16, 17, 19, 20, 21, 22, 27, 29, 33, 37, 38, 39, 41, 48, 51, 52, 53, 54, 56, 57},
    {1, 3, 4, 6, 7, 9, 10, 11, 12, 14, 16, 18, 19, 20, 34, 36, 37, 45, 46, 47, 51, 53, 55, 57, 58},
    {0, 4, 6, 7, 8, 11, 12, 13, 14, 15, 16, 19, 21, 22, 23, 30, 31, 32, 35, 38, 39, 42, 45, 47, 49, 50, 51, 54, 55, 56, 61, 62},
    {0, 1, 2, 3, 9, 10, 11, 13, 17, 19, 20, 21, 22, 25, 27, 30, 31, 37, 38, 40, 41, 42, 43, 44, 47, 48, 49, 50, 51, 53, 55, 57, 58, 59},
    {2, 3, 6, 7, 11, 12, 13, 15, 17, 20, 21, 23, 25, 29, 30, 33, 37, 38, 42, 43, 45, 46, 49, 50, 51, 52, 56, 57, 59, 60, 61, 62},
    {2, 10, 12, 13, 14, 16, 20, 23, 24, 25, 29, 30, 31, 43, 44, 45, 48, 49, 52, 54, 58, 59, 62, 63},
    {2, 3, 11, 13, 14, 15, 17, 18, 19, 20, 21, 22, 23, 29, 30, 32, 33, 34, 35, 36, 38, 39, 40, 46, 48, 50, 52, 54, 56, 60},
    {0, 1, 3, 4, 10, 11, 13, 16, 18, 23, 25, 26, 27, 29, 32, 33, 34, 36, 37, 38, 41, 43, 44, 45, 49, 50, 53, 55, 56, 57, 59, 60, 62},
    {2, 3, 4, 5, 7, 8, 9, 11, 12, 15, 16, 18, 21, 23, 27, 28, 29, 30, 31, 34, 36, 37, 42, 43, 44, 46, 47, 49, 51, 54, 55, 56, 59, 60, 61},
    {1, 2, 4, 7, 8, 9, 10, 11, 18, 21, 23, 24, 25, 26, 28, 31, 33, 36, 37, 38, 40, 41, 42, 43, 47, 48, 49, 53, 54, 56, 60, 61, 63},
    {0, 1, 3, 4, 6, 8, 12, 13, 14, 15, 17, 19, 22, 23, 24, 26, 27, 32, 34, 36, 37, 39, 41, 46, 48, 51, 53, 54, 56, 63},
    {1, 2, 4, 5, 6, 9, 10, 16, 19, 20, 21, 23, 25, 27, 28, 29, 30, 33, 36, 37, 38, 43, 44, 47, 54, 55, 57, 61, 62, 63},
    {1, 4, 5, 8, 14, 15, 19, 21, 22, 24, 34, 35, 37, 41, 42, 47, 48, 49, 50, 51, 53, 55, 56, 57, 59, 61, 62, 63},
    {2, 9, 14, 15, 16, 17, 18, 20, 22, 24, 26, 27, 29, 31, 32, 35, 40, 42, 45, 46, 47, 48, 49, 50, 52, 56, 59, 60, 62, 63},
    {1, 5, 6, 7, 8, 10, 12, 14, 21, 23, 24, 25, 26, 29, 30, 31, 33, 34, 36, 37, 39, 40, 43, 44, 45, 47, 49, 50, 51, 53, 55, 56, 60, 61},
    {0, 2, 3, 4, 7, 11, 12, 18, 21, 22, 23, 24, 25, 27, 29, 30, 31, 32, 35, 36, 37, 39, 40, 42, 45, 46, 49, 51, 52, 55, 57, 59, 61},
    {2, 3, 6, 7, 8, 9, 11, 15, 21, 22, 24, 25, 26, 27, 28, 29, 30, 31, 32, 34, 36, 39, 42, 43, 50, 51, 52, 54, 56, 57, 60, 62, 63},
    {1, 6, 7, 9, 11, 12, 15, 16, 20, 23, 25, 26, 28, 30, 31, 33, 39, 42, 44, 50, 54, 55, 57, 59, 60, 61, 62, 63},
    {1, 3, 5, 6, 7, 8, 12, 14, 15, 16, 17, 18, 21, 22, 26, 28, 29, 30, 31, 32, 33, 34, 38, 40, 41, 42, 46, 48, 49, 52, 55, 56, 57, 58, 59, 61, 62, 63},
    {0, 1, 3, 5, 8, 10, 11, 13, 20, 22, 24, 25, 26, 27, 29, 34, 35, 38, 39, 40, 41, 42, 43, 44, 48, 49, 50, 53, 55, 57, 58, 61, 62},
    {1, 4, 5, 7, 8, 9, 10, 12, 13, 14, 19, 22, 23, 24, 25, 26, 27, 32, 33, 34, 38, 40, 42, 43, 44, 45, 46, 48, 51, 53, 54, 58, 60, 61, 62},
    {2, 4, 5, 8, 14, 15, 18, 19, 20, 21, 22, 24, 27, 28, 30, 36, 37, 40, 42, 43, 45, 46, 48, 53, 54, 55, 56, 57, 58, 62},
    {0, 3, 5, 6, 10, 11, 14, 17, 21, 22, 27, 28, 30, 39, 40, 43, 44, 45, 46, 53, 54, 55, 59, 60, 63},
    {0, 3, 5, 10, 11, 12, 14, 16, 17, 18, 21, 23, 24, 25, 27, 28, 30, 31, 33, 36, 37, 39, 42, 43, 46, 48, 49, 50, 52, 53, 55, 56, 58, 59, 60},
    {0, 1, 5, 6, 16, 20, 23, 24, 30, 33, 34, 37, 38, 39, 41, 43, 44, 45, 46, 47, 48, 49, 51, 53, 55, 57, 59, 60, 62, 63},
    {0, 2, 4, 7, 10, 12, 21, 22, 24, 26, 27, 31, 32, 36, 40, 42, 43, 44, 49, 50, 52, 54, 55, 56, 57, 60, 62, 63},
    {2, 3, 4, 5, 6, 8, 9, 11, 13, 14, 17, 21, 23, 25, 28, 30, 33, 34, 37, 38, 42, 44, 46, 49, 52, 55, 56, 57, 60, 63},
    {0, 1, 3, 4, 6, 7, 8, 13, 14, 17, 18, 19, 20, 23, 26, 27, 30, 31, 34, 39, 44, 48, 49, 52, 53, 54, 55, 56, 62},
    {0, 1, 4, 5, 7, 8, 11, 13, 14, 16, 17, 18, 19, 22, 23, 24, 25, 26, 27, 28, 29, 32, 33, 34, 36, 37, 38, 40, 42, 44, 47, 48, 56, 59, 60, 61},
    {2, 3, 4, 5, 6, 7, 8, 10, 16, 17, 18, 20, 22, 23, 24, 26, 27, 29, 33, 35, 36, 37, 40, 41, 42, 43, 45, 46, 47, 49, 50, 57, 61, 63},
    {0, 2, 3, 4, 5, 7, 8, 12, 15, 16, 17, 19, 24, 25, 26, 27, 30, 31, 33, 35, 36, 38, 39, 40, 42, 43, 45, 46, 47, 48, 50, 53, 56},
    {0, 1, 6, 8, 9, 12, 14, 15, 17, 18, 19, 22, 25, 26, 27, 28, 30, 32, 34, 35, 37, 39, 40, 42, 43, 44, 45, 46, 48, 49, 50, 51, 56, 62},
    {0, 3, 5, 9, 10, 12, 13, 14, 15, 18, 19, 20, 22, 23, 25, 26, 27, 28, 29, 30, 34, 35, 36, 39, 40, 41, 42, 43, 45, 48, 50, 51, 53, 57, 58, 62, 63}>>

zobristWhite ==
  <<{5, 6, 7, 8, 10, 12, 13, 15, 17, 19, 25, 26, 29, 30, 31, 32, 33, 36, 38, 39, 40, 41, 42, 43, 44, 46, 50, 51, 54, 55, 56, 59, 63},
    {1, 3, 6, 7, 8, 10, 13, 14, 15, 18, 20, 22, 24, 30, 32, 35, 41, 42, 45, 48, 50, 51, 52, 53, 58, 63},
    {0, 1, 4, 5, 7, 10, 11, 13, 15, 16, 17, 18, 19, 22, 23, 28, 29, 30, 31, 32, 34, 35, 36, 38, 41, 45, 47, 50, 51, 52, 54, 57, 59, 60, 61, 62, 63},
    {3, 4, 6, 7, 8, 10, 11, 12, 15, 17, 18, 19, 21, 26, 29, 31, 33, 34, 36, 37, 39, 40, 41, 43, 44, 45, 52, 54, 55, 56, 57, 58, 59, 62, 63},
    {0, 1, 3, 4, 5, 6, 7, 11, 18, 20, 22, 27, 29, 33, 34, 37, 39, 40, 42, 44, 47, 50, 51, 53, 58, 60, 63},
    {0, 1, 3, 4, 7, 12, 13, 16, 18, 19, 21, 25, 27, 29, 30, 32, 35, 39, 43, 44, 46, 47, 50, 51, 52, 53, 54, 56, 62, 63},
    {1, 7, 8, 9, 11, 13, 14, 17, 18, 19, 20, 21, 22, 23, 25, 26, 29, 31, 32, 34, 35, 39, 40, 41, 43, 48, 49, 50, 51, 53, 55, 58, 59, 60, 61, 63},
    {0, 2, 4, 6, 8, 9, 10, 11, 12, 16, 18, 19, 28, 31, 32, 33, 35, 40, 42, 45, 46, 47, 50, 51, 52, 53, 54, 55, 56, 58, 59, 61},
    {0, 1, 2, 4, 5, 6, 7, 9, 10, 11, 13, 15, 17, 19, 23, 24, 25, 26, 31, 32, 34, 35, 36, 37, 41, 44, 45, 47, 49, 50, 54, 55, 56, 59, 62},
    {0, 2, 5, 6, 8, 11, 15, 16, 17, 18, 21, 22, 25, 26, 29, 33, 34, 37, 39, 40, 42, 44, 45, 46, 48, 49, 50, 51, 52, 53, 54},
    {2, 3, 5, 6, 7, 10, 11, 12, 13, 14, 15, 16, 17, 18, 20, 22, 24, 25, 30, 31, 33, 35, 36, 39, 43, 45, 49, 50, 51, 54, 55, 56, 57, 58, 61, 63},
    {0, 2, 3, 4, 5, 6, 8, 10, 12, 14, 15, 17, 18, 19, 21, 24, 27, 28, 29, 34, 35, 36, 37, 39, 41, 44, 47, 51, 52, 53, 57, 58, 59},
    {0, 1, 2, 3, 7, 9, 13, 14, 18, 21, 23, 28, 29, 32, 33, 36, 41, 43, 45, 46, 47, 49, 50, 51, 53, 54, 58, 60, 61, 62, 63},
    {1, 3, 4, 5, 6, 7, 9, 11, 12, 13, 19, 21, 24, 28, 29, 31, 33, 38, 40, 41, 42, 45, 47, 48, 49, 54, 57, 59, 61, 63},
    {0, 5, 6, 7, 8, 9, 10, 11, 12, 14, 15, 16, 18, 19, 24, 25, 28, 29, 30, 33, 34, 35, 36, 42, 43, 46, 47, 50, 51, 55, 56, 61, 62},
    {0, 3, 4, 6, 7, 8, 10, 11, 12, 13, 14, 15, 17, 19, 22, 24, 25, 27, 29, 32, 33, 36, 38, 40, 43, 44, 45, 47, 50, 51, 57, 61, 62, 63},
    {0, 2, 4, 5, 6, 7, 10, 14, 15, 16, 19, 20, 21, 26, 27, 28, 30, 33, 34, 37, 38, 39, 41, 42, 44, 46, 47, 48, 52, 53, 60, 61, 62, 63},
    {0, 3, 4, 6, 7, 8, 9, 10, 12, 14, 16, 17, 18, 19, 20, 21, 24, 29, 32, 35, 36, 37, 38, 40, 41, 45, 48, 49, 50, 52, 53, 54, 55, 56, 57, 61, 63},
    {0, 1, 6, 9, 13, 14, 15, 16, 18, 19, 21, 26, 27, 29, 31, 35, 36, 37, 38, 39, 40, 43, 44, 45, 47, 48, 49, 51, 52, 53, 54, 56, 57, 59, 60, 62, 63},
    {0, 1, 2, 3, 7, 9, 10, 11, 13, 18, 19, 20, 21, 25, 26, 27, 28, 31, 32, 33, 34, 35, 36, 37, 39, 42, 47, 50, 52, 53, 56, 58, 59, 60, 61},
    {3, 9, 13, 14, 15, 19, 22, 24, 25, 27, 30, 31, 34, 39, 40, 41, 45, 48, 52, 54, 55, 56, 57, 58, 59, 62, 63},
    {1, 2, 9, 10, 11, 13, 16, 17, 18, 19, 20, 24, 25, 26, 27, 30, 33, 36, 37, 40, 42, 43, 44, 45, 46, 52, 53, 54, 55, 58, 59, 61, 62},
    {0, 1, 2, 3, 5, 7, 8, 9, 12, 13, 17, 19, 22, 24, 25, 26, 27, 28, 32, 35, 37, 38, 44, 46, 47, 49, 50, 55, 56, 58, 61},
    {0, 1, 6, 7, 11, 14, 17, 21, 23, 24, 25, 27, 28, 29, 31, 33, 34, 35, 39, 40, 41, 43, 44, 47, 52, 56, 59, 62},
    {2, 4, 6, 7, 8, 10, 11, 12, 18, 19, 22, 24, 26, 27, 29, 32, 33, 38, 40, 43, 45, 47, 48, 49, 50, 52, 53, 54, 56, 58, 62},
    {1, 7, 10, 11, 13, 14, 16, 17, 18, 20, 21, 22, 23, 24, 25, 26, 27, 29, 33, 36, 39, 41, 42, 47, 49, 50, 53, 54, 56, 57, 58, 60, 61},
    {0, 1, 2, 4, 5, 7, 10, 11, 14, 15, 16, 17, 23, 24, 28, 31, 34, 35, 38, 40, 41, 42, 43, 45, 46, 49, 50, 53, 55, 56, 59, 61},
    {1, 4, 6, 13, 14, 15, 16, 17, 21, 23, 25, 27, 28, 29, 30, 32, 33, 35, 38, 39, 48, 49, 50, 51, 54, 59, 60, 62},
    {1, 2, 3, 8, 9, 10, 11, 15, 17, 19, 20, 24, 26, 28, 30, 31, 32, 34, 38, 39, 40, 41, 44, 45, 46, 47, 48, 49, 54, 60, 62, 63},
    {0, 2, 3, 5, 6, 9, 11, 13, 18, 19, 21, 22, 23, 26, 27, 28, 30, 31, 34, 35, 36, 37, 38, 41, 42, 45, 46, 47, 48, 49, 52, 57, 62, 63},
    {0, 1, 3, 4, 6, 9, 10, 11, 14, 16, 18, 20, 21, 23, 24, 27, 28, 30, 32, 33, 35, 37, 41, 46, 47, 48, 49, 50, 52, 53, 54, 58, 60, 61, 62, 63},
    {1, 2, 3, 8, 10, 11, 13, 16, 17, 18, 19, 22, 26, 30, 31, 32, 33, 34, 35, 36, 43, 45, 47, 51, 55, 56, 57, 58, 59, 62},
    {6, 7, 13, 14, 15, 18, 19, 20, 23, 24, 25, 26, 28, 29, 39, 40, 41, 42, 43, 44, 47, 49, 51, 56, 57, 58, 59, 60},
    {0, 1, 4, 6, 8, 9, 10, 11, 12, 17, 19, 20, 22, 26, 27, 28, 29, 31, 32, 33, 34, 35, 36, 38, 44, 45, 47, 49, 50, 51, 52, 53, 57, 58, 61, 62, 63},
    {0, 1, 6, 7, 8, 9, 10, 11, 12, 15, 16, 22, 23, 24, 25, 26, 27, 28, 29, 30, 33, 38, 42, 43, 44, 48, 49, 50, 55, 56, 57, 63},
    {0, 3, 5, 10, 12, 13, 18, 19, 22, 24, 25, 32, 34, 37, 38, 41, 43, 44, 45, 48, 49, 55, 56, 58, 59, 60, 61, 63},
    {2, 3, 6, 12, 13, 15, 16, 19, 21, 22, 23, 24, 26, 27, 28, 31, 32, 33, 37, 39, 42, 43, 46, 47, 48, 52, 53, 54, 57, 58, 63},
    {0, 1, 3, 6, 10, 11, 16, 20, 23, 24, 26, 28, 29, 31, 35, 36, 38, 40, 42, 43, 44, 45, 46, 47, 49, 50, 52, 53, 55, 57, 59, 60, 63},
    {0, 2, 3, 4, 6, 7, 14, 15, 17, 19, 20, 21, 22, 26, 28, 30, 32, 34, 38, 41, 44, 46, 48, 52, 53, 54, 55, 58},
    {1, 3, 4, 5, 8, 13, 15, 17, 19, 22, 23, 25, 28, 29, 31, 35, 36, 37, 42, 44, 45, 46, 47, 49, 50, 51, 52, 53, 54, 56, 57, 59, 60, 61},
    {0, 2, 3, 5, 7, 8, 9, 10, 11, 15, 18, 20, 21, 22, 23, 24, 27, 28, 30, 31, 34, 36, 37, 38, 43, 44, 48, 49, 52, 55, 57, 58, 61, 62},
    {0, 2, 4, 7, 8, 10, 11, 12, 13, 17, 19, 21, 22, 28, 33, 34, 35, 38, 40, 41, 43, 46, 47, 49, 50, 52, 53, 56, 57, 59, 60, 61, 62, 63},
    {0, 1, 2, 4, 6, 8, 11, 14, 16, 17, 18, 19, 21, 22, 23, 24, 25, 28, 32, 34, 35, 36, 40, 42, 44, 45, 49, 51, 52, 54, 59, 61},
    {1, 4, 5, 6, 8, 9, 10, 13, 16, 17, 19, 20, 22, 23, 25, 26, 27, 30, 31, 32, 34, 35, 36, 38, 42, 43, 44, 45, 49, 50, 52, 53, 54, 56, 58, 62, 63},
    {1, 2, 5, 6, 8, 10, 15, 16, 17, 18, 19, 20, 21, 25, 26, 27, 28, 29, 35, 37, 40, 42, 45, 46, 47, 52, 56, 58, 59, 60, 61, 62},
    {0, 7, 8, 10, 11, 13, 18, 19, 22, 23, 24, 25, 26, 29, 30, 38, 39, 40, 41, 45, 47, 48, 50, 51, 52, 53, 55, 58, 59},
    {0, 2, 5, 6, 8, 9, 12, 13, 16, 18, 24, 26, 27, 29, 31, 32, 33, 36, 37, 42, 43, 47, 50, 52, 53, 56, 59, 60},
    {2, 4, 8, 11, 14, 16, 18, 21, 23, 25, 27, 30, 31, 32, 34, 35, 36, 37, 38, 40, 42, 43, 45, 46, 48, 50, 51, 52, 53, 54, 55, 56, 57, 62, 63},
    {0, 4, 5, 8, 9, 14, 15, 17, 22, 23, 27, 28, 29, 30, 31, 32, 33, 35, 37, 39, 40, 41, 42, 43, 44, 48, 49, 52, 53, 54, 59, 60, 61, 62, 63},
    {0, 3, 6, 9, 10, 13, 19, 21, 22, 28, 31, 33, 38, 44, 45, 46, 47, 48, 50, 53, 54, 55, 57, 58, 59, 60, 62, 63},
    {0, 1, 2, 3, 4, 5, 8, 11, 12, 16, 17, 18, 19, 21, 26, 27, 31, 33, 35, 37, 39, 41, 42, 43, 46, 47, 49, 53, 54, 55, 57, 58, 59, 62},
    {0, 1, 4, 5, 6, 7, 11, 18, 20, 21, 24, 25, 30, 31, 32, 33, 35, 36, 38, 39, 40, 42, 43, 44, 46, 47, 51, 53, 54, 60, 61, 62, 63},
    {3, 4, 5, 6, 7, 8, 9, 10, 14, 20, 21, 23, 25, 26, 27, 28, 29, 30, 34, 37, 38, 41, 42, 43, 44, 46, 47, 51, 54, 55, 56, 62, 63},
    {0, 1, 2, 5, 6, 7, 8, 10, 11, 13, 15, 16, 17, 18, 20, 25, 27, 29, 31, 33, 34, 37, 38, 44, 45, 47, 49, 51, 52, 53, 58, 59, 60, 63},
    {4, 5, 9, 12, 13, 18, 19, 20, 25, 29, 30, 34, 39, 40, 41, 45, 46, 47, 48, 50, 51, 53, 55, 57, 59},
    {3, 4, 7, 9, 10, 11, 13, 14, 16, 20, 21, 22, 23, 27, 28, 31, 32, 33, 37, 38, 41, 46, 47, 48, 51, 52, 55, 58, 60, 61, 63},
    {1, 2, 3, 4, 6, 7, 10, 13, 15, 16, 22, 23, 28, 34, 36, 39, 40, 41, 48, 49, 50, 51, 53, 56, 58, 62, 63},
    {1, 3, 6, 7, 8, 9, 11, 12, 16, 17, 18, 19, 20, 22, 23, 26, 28, 37, 38, 39, 41, 42, 44, 45, 46, 49, 51, 52, 54, 57, 58, 62},
    {1, 4, 9, 10, 13, 15, 16, 17, 22, 25, 30, 32, 34, 35, 39, 40, 43, 44, 45, 47, 48, 53, 56, 58, 59, 60, 61, 63},
    {0, 2, 3, 4, 5, 6, 7, 8, 9, 13, 17, 19, 21, 23, 24, 31, 32, 34, 38, 45, 52, 59, 63},
    {1, 2, 3, 6, 7, 8, 9, 12, 15, 16, 17, 19, 20, 22, 23, 24, 26, 30, 31, 32, 34, 35, 36, 37, 38, 39, 40, 44, 52, 55, 57, 60, 61, 63},
    {1, 2, 3, 5, 6, 9, 10, 14, 15, 16, 18, 21, 24, 25, 26, 28, 29, 30, 31, 33, 37, 38, 39, 41, 43, 44, 48, 50, 51, 52, 55, 57, 59, 61},
    {1, 2, 6, 9, 10, 14, 15, 16, 19, 20, 21, 22, 23, 24, 28, 29, 32, 35, 36, 43, 49, 52, 56, 59, 61, 62},
    {3, 6, 7, 8, 9, 13, 16, 18, 19, 20, 26, 27, 31, 34, 35, 36, 38, 39, 41, 42, 43, 44, 45, 49, 51, 55, 59, 60, 62}>>

zobristPlayer ==
  {2, 3, 5, 8, 11, 13, 17, 20, 24, 25, 26, 27, 33, 36, 38, 39, 40, 41, 42, 43, 44, 46, 47, 50, 56, 58, 59, 60, 61, 63}

zobristPieces(player, pos) ==
  IF player = PLAYER_BLACK THEN zobristBlack[pos + 1] ELSE zobristWhite[pos + 1]

\* a ^ b on 64-bit words
XOR(a, b) == (a \ b) \cup (b \ a)

RECURSIVE HashPieces(_, _, _)
HashPieces(bb, player, hash) ==
  IF bb = {} THEN hash
  ELSE LET pos == bitScanForward(bb)
       IN  CHOOSE r \in {HashPieces(bb \ {pos}, player, h) :
                            h \in {XOR(hash, zobristPieces(player, pos))}} : TRUE

computeHash(board, player) ==
  LET h1 == HashPieces(board.black, PLAYER_BLACK, {})
      h2 == HashPieces(board.white, PLAYER_WHITE, h1)
  IN  IF player = PLAYER_BLACK THEN XOR(h2, zobristPlayer) ELSE h2

RECURSIVE HashFlips(_, _, _)
HashFlips(flips, player, hash) ==
  IF flips = {} THEN hash
  ELSE LET pos == bitScanForward(flips)
           h1 == XOR(hash, zobristPieces(getOpponent(player), pos))
           h2 == XOR(h1, zobristPieces(player, pos))
       IN  HashFlips(flips \ {pos}, player, h2)

\* updateHash without the loop over the flipped discs.
updateHash_NoFlips(hash, move, flips, player) ==
  XOR(XOR(hash, zobristPieces(player, move)), zobristPlayer)

\* updateHash without "hash ^= zobristPlayer".
updateHash_NoSideToggle(hash, move, flips, player) ==
  LET h1 == XOR(hash, zobristPieces(player, move))
  IN  HashFlips(flips, player, h1)

updateHash(hash, move, flips, player) ==
  LET h1 == XOR(hash, zobristPieces(player, move))
      h2 == HashFlips(flips, player, h1)
  IN  XOR(h2, zobristPlayer)

(***************************************************************************)
(* Bounds                                                                  *)
(***************************************************************************)
\* Number of playMove/makeMove calls explored from a constructed model.
MaxOps == 3
\* Depth of the stack of snapshots kept by callers of makeMove.
MaxUndo == 2

\* Squares offered to playMove/makeMove beside the legal ones: an empty
\* corner and a central disc of each colour.
ProbeSquares == {0, 27, 28}

\* Largest node limit with which the search of AIHard is explored.
MaxHardNodes == 40
MaxLoads == 1
MaxRecords == 2
MaxPatterns == 6
MaxStarts == 2
MaxChanges == 2
MaxAge == 1
\* Number of games given to addGame one after the other.
MaxGames == 2
(***************************************************************************)
(* State                                                                   *)
(***************************************************************************)
VARIABLES
  model,   \* GameModel: gameOver, board, currentPlayer
  undo,    \* snapshots returned by makeMove and not yet given to unmakeMove
  ops,     \* number of playMove/makeMove calls so far
  last,    \* the last call: its arguments, its result and the state before it
  history, \* the moves played since startModel
  ai,      \* the AI instance: tier, node limit, moveCount
  srch,    \* getBestMove/search() in progress: position in the code, locals
  sboard,  \* the Board_t the search works on (passed by reference)
  stack,   \* call stack of rootSearch/negamax frames, innermost first
  ret,     \* value returned by the call that just finished
  eng,     \* SearchEngine counters and pvMove
  tt,      \* TranspositionTable: written slots and currentAge
  timeUp,  \* the last answer of isTimeUp(); the clock never goes back
  obs,     \* history of the search recorded for the properties
  io,      \* OpeningBook under loadFile: the book, its totals, the last file
  call,    \* a board or table function applied to its inputs: arguments, result
  ctl      \* controller.cpp: currentAI, aiThread and its workers, the main thread

gameVars == <<model, undo, ops, last, history>>
searchVars == <<ai, srch, sboard, stack, ret, eng, tt, timeUp, obs>>
unitVars == <<io, call, ctl>>
vars == <<model, undo, ops, last, history, ai, srch, sboard, stack, ret, eng,
          tt, timeUp, obs, io, call, ctl>>

(***************************************************************************)
(* Transposition table.  TT_ENTRIES = 256 MB / sizeof(TTEntry) = 2^24, so  *)
(* hash % size keeps the low 24 bits of the hash.  The table is a function *)
(* from the indices written so far to their entries; every other slot      *)
(* still holds the zero bytes clear() wrote with memset.                   *)
(***************************************************************************)
BOUND_EXACT == 0
BOUND_LOWER == 1
BOUND_UPPER == 2

TT_INDEX_BITS == 24

ZeroEntry ==
  [zobristKey |-> {}, score |-> 0, bestMove |-> 0, depth |-> 0,
   bound |-> 0, age |-> 0]

getIndex(hash) == {b \in hash : b < TT_INDEX_BITS}

TTSlot(table, index) ==
  IF index \in DOMAIN table THEN table[index] ELSE ZeroEntry

\* currentAge is a uint8_t.
newSearch(currentAge) ==
  LET a == (currentAge + 1) % 256 IN IF a = 0 THEN 1 ELSE a

\* probe without the test of the stored depth.
probe_AnyDepth(table, hash, depth, alpha, beta, score, bestMove) ==
  LET entry == TTSlot(table, getIndex(hash))
      move == IF entry.bestMove # MOVE_NONE THEN entry.bestMove ELSE bestMove
  IN  IF entry.zobristKey # hash
        THEN [hit |-> FALSE, score |-> score, bestMove |-> bestMove]
      ELSE IF entry.bound = BOUND_EXACT
             \/ (entry.bound = BOUND_LOWER /\ entry.score >= beta)
             \/ (entry.bound = BOUND_UPPER /\ entry.score <= alpha)
        THEN [hit |-> TRUE, score |-> entry.score, bestMove |-> move]
      ELSE [hit |-> FALSE, score |-> score, bestMove |-> move]

\* store that always writes the slot.
store_Always(table, currentAge, hash, depth, score, bound, bestMove) ==
  [i \in DOMAIN table \cup {getIndex(hash)} |->
     IF i = getIndex(hash)
       THEN [zobristKey |-> hash, score |-> score, bestMove |-> bestMove,
             depth |-> depth, bound |-> bound, age |-> currentAge]
       ELSE table[i]]

\* score and bestMove are the values the caller's output variables hold
\* before the call; the result carries them as they are after it.
probe(table, hash, depth, alpha, beta, score, bestMove) ==
  LET entry == TTSlot(table, getIndex(hash))
      move == IF entry.bestMove # MOVE_NONE THEN entry.bestMove ELSE bestMove
  IN  IF entry.zobristKey # hash
        THEN [hit |-> FALSE, score |-> score, bestMove |-> bestMove]
      ELSE IF entry.depth < depth
        THEN [hit |-> FALSE, score |-> score, bestMove |-> move]
      ELSE IF entry.bound = BOUND_EXACT
        THEN [hit |-> TRUE, score |-> entry.score, bestMove |-> move]
      ELSE IF entry.bound = BOUND_LOWER /\ entry.score >= beta
        THEN [hit |-> TRUE, score |-> entry.score, bestMove |-> move]
      ELSE IF entry.bound = BOUND_UPPER /\ entry.score <= alpha
        THEN [hit |-> TRUE, score |-> entry.score, bestMove |-> move]
      ELSE [hit |-> FALSE, score |-> score, bestMove |-> move]

store(table, currentAge, hash, depth, score, bound, bestMove) ==
  LET index == getIndex(hash)
      entry == TTSlot(table, index)
      replace ==
        IF entry.zobristKey = {} THEN TRUE
        ELSE IF entry.zobristKey = hash THEN depth >= entry.depth
        ELSE IF entry.age # currentAge THEN TRUE
        ELSE depth > entry.depth + 2
      new == [zobristKey |-> hash, score |-> score, bestMove |-> bestMove,
              depth |-> depth, bound |-> bound, age |-> currentAge]
  IN  IF replace
        THEN [i \in DOMAIN table \cup {index} |->
                IF i = index THEN new ELSE table[i]]
        ELSE table

ttGetBestMove(table, hash) ==
  LET entry == TTSlot(table, getIndex(hash))
  IN  IF entry.zobristKey = hash THEN entry.bestMove ELSE MOVE_NONE

(***************************************************************************)
(* AIExtreme::Evaluator                                                    *)
(***************************************************************************)
MAX_SEARCH_DEPTH == 12
ENDGAME_DEPTH == 16
ENDGAME_THRESHOLD == 12
DEFAULT_MAX_NODES == 500000
INFINITY_SCORE == 1000000
WIN_SCORE == 100000
LOSE_SCORE == -100000
WEIGHT_MOBILITY == 10
WEIGHT_CORNER == 100
WEIGHT_STABILITY == 15
WEIGHT_FRONTIER == -5

pieceSquareTable ==
  << 100, -20, 10,  5,  5, 10, -20, 100,
     -20, -50, -2, -2, -2, -2, -50, -20,
      10,  -2,  5,  1,  1,  5,  -2,  10,
       5,  -2,  1,  1,  1,  1,  -2,   5,
       5,  -2,  1,  1,  1,  1,  -2,   5,
      10,  -2,  5,  1,  1,  5,  -2,  10,
     -20, -50, -2, -2, -2, -2, -50, -20,
     100, -20, 10,  5,  5, 10, -20, 100 >>

getCornerCount(board, player) ==
  countBits(getPlayerBitboard(board, player) \cap CORNERS)

evaluateMobility(board, player) ==
  LET myMoves == getMoveCount(board, player)
      oppMoves == getMoveCount(board, getOpponent(player))
  IN  IF myMoves + oppMoves = 0 THEN 0 ELSE myMoves - oppMoves

evaluateCorners(board, player) ==
  getCornerCount(board, player) - getCornerCount(board, getOpponent(player))

\* The sum of pieceSquareTable over the squares of a bitboard; the loop of
\* evaluatePositional adds it for myPieces and subtracts it for oppPieces.
RECURSIVE PositionalSum(_)
PositionalSum(pieces) ==
  IF pieces = {} THEN 0
  ELSE LET pos == bitScanForward(pieces)
       IN  pieceSquareTable[pos + 1] + PositionalSum(pieces \ {pos})

evaluatePositional(board, player) ==
  PositionalSum(getPlayerBitboard(board, player))
    - PositionalSum(getOpponentBitboard(board, player))

evaluateStability(board, player) ==
  LET myPieces == getPlayerBitboard(board, player)
      oppPieces == getOpponentBitboard(board, player)
  IN  countBits(myPieces \cap CORNERS) * 5 - countBits(oppPieces \cap CORNERS) * 5
        + countBits(myPieces \cap EDGES) - countBits(oppPieces \cap EDGES)

evaluateFrontier(board, player) ==
  LET myPieces == getPlayerBitboard(board, player)
      oppPieces == getOpponentBitboard(board, player)
      empty == getEmptyBitboard(board)
      adjacentToEmpty ==
        shiftN(empty) \cup shiftS(empty) \cup shiftW(empty) \cup shiftE(empty)
          \cup shiftNW(empty) \cup shiftSE(empty)
          \cup shiftNE(empty) \cup shiftSW(empty)
      myFrontier == countBits(myPieces \cap adjacentToEmpty)
      oppFrontier == countBits(oppPieces \cap adjacentToEmpty)
  IN  oppFrontier - myFrontier

evaluateDiscParity(board, player) == getScoreDiff(board, player)

evaluate(board, player) ==
  LET emptyCount == getEmptyCount(board)
      mobility == evaluateMobility(board, player) * WEIGHT_MOBILITY
      corners == evaluateCorners(board, player) * WEIGHT_CORNER
      positional == evaluatePositional(board, player)
      stability == IF emptyCount < 30
                     THEN evaluateStability(board, player) * WEIGHT_STABILITY
                   ELSE 0
      frontier == IF emptyCount > 20
                    THEN evaluateFrontier(board, player) * WEIGHT_FRONTIER
                  ELSE 0
      parity == IF emptyCount < 20
                  THEN evaluateDiscParity(board, player) * (30 - emptyCount)
                ELSE 0
  IN  IF emptyCount <= 10 THEN evaluateDiscParity(board, player) * 10
      ELSE mobility + corners + positional + stability + frontier + parity

(***************************************************************************)
(* Move ordering of AIExtreme::SearchEngine                                *)
(***************************************************************************)
scoreMoveForOrdering(move, board, player) ==
  LET s1 == IF move \in CORNERS THEN 10000
            ELSE IF move \in X_SQUARES THEN -5000
            ELSE IF move \in EDGES THEN 100
            ELSE 0
      playerBB == getPlayerBitboard(board, player)
      opponentBB == getOpponentBitboard(board, player)
      flips == countBits(calculateFlips(playerBB, opponentBB, move))
      made == makeMove(board, player, move)
      oppMobility == getMoveCount(made.board, made.currentPlayer)
  IN  s1 + flips * 10 - oppMobility * 5

\* The comparison orderMoves passes to std::sort.  a and b carry a move
\* with its scoreMoveForOrdering value, which depends on the move alone
\* while the list is sorted.
OrderBefore(a, b, pvMove) ==
  IF a.move = pvMove THEN TRUE
  ELSE IF b.move = pvMove THEN FALSE
  ELSE a.score > b.score

\* std::sort on the short move lists of this game is an insertion sort:
\* each element moves left past the elements it is ordered before.
RECURSIVE InsertMove(_, _, _)
InsertMove(sorted, val, pvMove) ==
  IF sorted = <<>> THEN <<val>>
  ELSE LET lastElem == sorted[Len(sorted)]
       IN  IF OrderBefore(val, lastElem, pvMove)
             THEN InsertMove(SubSeq(sorted, 1, Len(sorted) - 1), val, pvMove)
                    \o <<lastElem>>
             ELSE sorted \o <<val>>

RECURSIVE SortMoves(_, _, _, _, _)
SortMoves(done, rest, board, player, pvMove) ==
  IF rest = <<>> THEN done
  ELSE SortMoves(InsertMove(done,
                            [move |-> Head(rest),
                             score |-> scoreMoveForOrdering(Head(rest), board,
                                                            player)],
                            pvMove),
                 Tail(rest), board, player, pvMove)

RECURSIVE MovesOf(_)
MovesOf(scored) ==
  IF scored = <<>> THEN <<>>
  ELSE <<Head(scored).move>> \o MovesOf(Tail(scored))

orderMoves(moves, board, player, pvMove) ==
  MovesOf(SortMoves(<<>>, moves, board, player, pvMove))

\* "it = find(moves, ttMove); if found: erase(it); insert(begin, ttMove)"
MoveToFront(moves, ttMove) ==
  IF ttMove # MOVE_NONE /\ \E i \in 1 .. Len(moves) : moves[i] = ttMove
    THEN <<ttMove>> \o SelectSeq(moves, LAMBDA x : x # ttMove)
    ELSE moves

(***************************************************************************)
(* AIExtreme: getBestMove, SearchEngine::search, rootSearch and negamax as *)
(* steps over an explicit call stack.  A frame keeps the arguments and     *)
(* locals of one call; `phase` is its position in the code.                *)
(***************************************************************************)
AI_EASY == 0
AI_NORMAL == 1
AI_HARD == 2
AI_EXTREME == 3

NoBoard == [black |-> {}, white |-> {}]

NoRet ==
  [valid |-> FALSE, kind |-> "none", value |-> 0, path |-> "none",
   cut |-> FALSE, examined |-> 0, entry |-> NoBoard, player |-> PLAYER_BLACK,
   depth |-> 0, terminal |-> FALSE]

IdleSearch ==
  [pc |-> "idle", player |-> PLAYER_BLACK, validMoves |-> <<>>,
   bestMove |-> MOVE_NONE, depth |-> 0, maxDepth |-> 0, result |-> MOVE_NONE]

\* setMaxNodes: a limit that is not positive selects the default.
NewEngine(limit) ==
  [nodesSearched |-> 0, cutoffs |-> 0, maxDepthReached |-> 0,
   pvMove |-> MOVE_NONE,
   maxNodesLimit |-> IF limit > 0 THEN limit ELSE DEFAULT_MAX_NODES]

NewTT == [table |-> <<>>, currentAge |-> 0]

NoObs ==
  [completeBest |-> MOVE_NONE, cutByTime |-> FALSE, maxHeur |-> 0]

Frame(kind, player, depth, alpha, beta, hash, entry) ==
  [kind |-> kind, phase |-> "enter", player |-> player, depth |-> depth,
   alpha |-> alpha, beta |-> beta, hash |-> hash, moves |-> <<>>, i |-> 1,
   move |-> MOVE_NONE, bestScore |-> -INFINITY_SCORE, bestMove |-> MOVE_NONE,
   bound |-> BOUND_UPPER,
   state |-> [black |-> {}, white |-> {}, player |-> PLAYER_BLACK],
   nextPlayer |-> player, entry |-> entry]

Top == Head(stack)

\* The answers a call of isTimeUp() can give now.
IsTimeUp(called) == IF called /\ ~timeUp THEN {FALSE, TRUE} ELSE {timeUp}

Abs(x) == IF x < 0 THEN -x ELSE x
Max2(a, b) == IF a > b THEN a ELSE b

RetOf(f, value, path, cut, examined, terminal) ==
  [valid |-> TRUE, kind |-> f.kind, value |-> value, path |-> path,
   cut |-> cut, examined |-> examined, entry |-> f.entry,
   player |-> f.player, depth |-> f.depth, terminal |-> terminal]

\* The tail of rootSearch and negamax after their loop: tt.store and return.
StoreAndReturn(f, table, value, path, cut) ==
  [table |-> store(table, tt.currentAge, f.hash, f.depth, f.bestScore,
                   f.bound, f.bestMove),
   ret |-> RetOf(f, value, path, cut, f.i - 1, FALSE)]

\* The make step shared by the two loops: flips, makeMove, updateHash and
\* the recursive call negamax(board, nextPlayer, depth - 1, -beta, -alpha).
MakeAndCall(f) ==
  LET move == f.moves[f.i]
      playerBB == getPlayerBitboard(sboard, f.player)
      opponentBB == getOpponentBitboard(sboard, f.player)
      flips == calculateFlips(playerBB, opponentBB, move)
      made == makeMove(sboard, f.player, move)
      nextHash == updateHash(f.hash, move, flips, f.player)
      child == Frame("negamax", made.currentPlayer, f.depth - 1, -f.beta,
                     -f.alpha, nextHash, made.board)
      waiting == [f EXCEPT !.phase = "wait", !.move = move,
                           !.state = made.state,
                           !.nextPlayer = made.currentPlayer]
  IN  [board |-> made.board, stack |-> <<child, waiting>> \o Tail(stack)]

\* The body of the two loops without its call of unmakeMove.
AfterCall_NoUnmake(f, score) ==
  LET better == score > f.bestScore
      f1 == [f EXCEPT !.bestScore = IF better THEN score ELSE @,
                      !.bestMove = IF better THEN f.move ELSE @,
                      !.alpha = IF score > f.alpha THEN score ELSE @,
                      !.bound = IF score > f.alpha THEN BOUND_EXACT ELSE @,
                      !.i = f.i + 1, !.phase = "loop"]
  IN  [board |-> sboard, frame |-> f1, cutoff |-> f1.alpha >= f1.beta]

\* The body of the two loops after the recursive call returned `score`.
AfterCall(f, score) ==
  LET undone == unmakeMove(sboard, f.nextPlayer, f.state)
      better == score > f.bestScore
      f1 == [f EXCEPT !.bestScore = IF better THEN score ELSE @,
                      !.bestMove = IF better THEN f.move ELSE @,
                      !.alpha = IF score > f.alpha THEN score ELSE @,
                      !.bound = IF score > f.alpha THEN BOUND_EXACT ELSE @,
                      !.nextPlayer = undone.currentPlayer,
                      !.i = f.i + 1, !.phase = "loop"]
  IN  [board |-> undone.board, frame |-> f1, cutoff |-> f1.alpha >= f1.beta]

(***************************************************************************)
(* Opening book                                                            *)
(***************************************************************************)
BOOK_MAX_DEPTH == 12
BOOK_MIN_GAME_COUNT == 2

\* The book is a map from position hash to BookPosition; a hash outside
\* its domain is a position that is not in the book.
EmptyBook == <<>>

NewBookMove(move) ==
  [move |-> move, gameCount |-> 0, winCount |-> 0, drawCount |-> 0,
   lossCount |-> 0]

NewBookPosition == [moves |-> <<>>, totalGames |-> 0]

Min2(a, b) == IF a < b THEN a ELSE b

\* BookMove::getScore() is winRate * 0.8 + min(1, gameCount / 100) * 0.2
\* with winRate = (winCount + drawCount / 2) / gameCount.  The value is
\* kept as the exact fraction getScoreNum / (500 * gameCount).
getScoreNum(bm) ==
  400 * bm.winCount + 200 * bm.drawCount + bm.gameCount * Min2(100, bm.gameCount)

\* a.getScore() > b.getScore(), for moves with gameCount > 0.
ScoreGreater(a, b) == getScoreNum(a) * b.gameCount > getScoreNum(b) * a.gameCount

\* One turn of the loop of addGame.
RECURSIVE AddGameLoop(_, _, _, _, _, _, _, _)
AddGameLoop(book, moves, i, depth, board, player, blackWon, draw) ==
  IF i > depth \/ moves[i] = MOVE_NONE THEN book
  ELSE
    LET move == moves[i]
        hash == computeHash(board, player)
        pos == IF hash \in DOMAIN book THEN book[hash] ELSE NewBookPosition
        known == {k \in 1 .. Len(pos.moves) : pos.moves[k].move = move}
        list == IF known = {} THEN Append(pos.moves, NewBookMove(move))
                ELSE pos.moves
        k == IF known = {} THEN Len(list)
             ELSE CHOOSE x \in known : \A y \in known : x <= y
        playerIsBlack == player = PLAYER_BLACK
        playerWon == (playerIsBlack /\ blackWon)
                     \/ (~playerIsBlack /\ ~blackWon /\ ~draw)
        counted == [list[k] EXCEPT
                      !.gameCount = @ + 1,
                      !.drawCount = IF draw THEN @ + 1 ELSE @,
                      !.winCount = IF ~draw /\ playerWon THEN @ + 1 ELSE @,
                      !.lossCount = IF ~draw /\ ~playerWon THEN @ + 1 ELSE @]
        pos1 == [moves |-> [list EXCEPT ![k] = counted],
                 totalGames |-> pos.totalGames + 1]
        book1 == [h \in DOMAIN book \cup {hash} |->
                    IF h = hash THEN pos1 ELSE book[h]]
        playerBB == getPlayerBitboard(board, player)
        opponentBB == getOpponentBitboard(board, player)
        flips == calculateFlips(playerBB, opponentBB, move)
        moveBit == {move}
        board1 == IF player = PLAYER_BLACK
                    THEN [black |-> board.black \cup moveBit \cup flips,
                          white |-> board.white \ flips]
                    ELSE [black |-> board.black \ flips,
                          white |-> board.white \cup moveBit \cup flips]
    IN  AddGameLoop(book1, moves, i + 1, depth, board1, getOpponent(player),
                    blackWon, draw)

addGame(book, moves, blackScore) ==
  IF moves = <<>> THEN book
  ELSE LET whiteScore == 64 - blackScore
       IN  AddGameLoop(book, moves, 1, Min2(Len(moves), BOOK_MAX_DEPTH),
                       [black |-> {35, 28}, white |-> {27, 36}], PLAYER_BLACK,
                       blackScore > whiteScore, blackScore = whiteScore)

RECURSIVE AddGames(_, _)
AddGames(book, games) ==
  IF games = <<>> THEN book
  ELSE AddGames(addGame(book, Head(games).moves, Head(games).blackScore),
                Tail(games))

\* std::sort of the candidates by descending score.
RECURSIVE InsertBookMove(_, _)
InsertBookMove(sorted, bm) ==
  IF sorted = <<>> THEN <<bm>>
  ELSE IF ScoreGreater(bm, sorted[Len(sorted)])
    THEN Append(InsertBookMove(SubSeq(sorted, 1, Len(sorted) - 1), bm),
                sorted[Len(sorted)])
  ELSE Append(sorted, bm)

RECURSIVE SortBookMoves(_, _)
SortBookMoves(sorted, rest) ==
  IF rest = <<>> THEN sorted
  ELSE SortBookMoves(InsertBookMove(sorted, Head(rest)), Tail(rest))

\* probe without the filter on gameCount.
bookProbe_NoThreshold(book, board, player, moveCount) ==
  LET hash == computeHash(board, player)
      pos == book[hash]
      candidates == SortBookMoves(<<>>, pos.moves)
  IN  IF moveCount > BOOK_MAX_DEPTH THEN {MOVE_NONE}
      ELSE IF hash \notin DOMAIN book THEN {MOVE_NONE}
      ELSE IF pos.moves = <<>> THEN {MOVE_NONE}
      ELSE IF Len(candidates) > 1
        THEN {candidates[1].move, candidates[2].move}
      ELSE {candidates[1].move}

\* OpeningBook::probe: the set of moves it can return; the random draw
\* picks the second candidate with probability BOOK_RANDOMNESS.
bookProbe(book, board, player, moveCount) ==
  LET hash == computeHash(board, player)
      pos == book[hash]
      candidates == SortBookMoves(<<>>,
                      SelectSeq(pos.moves,
                                LAMBDA bm : bm.gameCount >= BOOK_MIN_GAME_COUNT))
  IN  IF moveCount > BOOK_MAX_DEPTH THEN {MOVE_NONE}
      ELSE IF hash \notin DOMAIN book THEN {MOVE_NONE}
      ELSE IF pos.moves = <<>> THEN {MOVE_NONE}
      ELSE IF candidates = <<>> THEN {MOVE_NONE}
      ELSE IF Len(candidates) > 1
        THEN {candidates[1].move, candidates[2].move}
      ELSE {candidates[1].move}

\* negamax from its first line to the head of its loop.
NegamaxEnter ==
  /\ stack # <<>>
  /\ Top.kind = "negamax"
  /\ Top.phase = "enter"
  /\ LET f == Top
         nodes == eng.nodesSearched + 1
         p == probe(tt.table, f.hash, f.depth, f.alpha, f.beta, 0, MOVE_NONE)
         leaf == f.depth = 0 \/ isTerminal(sboard, f.player)
         periodic == ~p.hit /\ ~leaf /\ nodes % 1024 = 0
         static == evaluate(sboard, f.player)
         moves == getValidMovesAI(sboard, f.player)
         opponent == getOpponent(f.player)
         finalScore == getScoreDiff(sboard, f.player)
         overScore == IF finalScore > 0 THEN WIN_SCORE
                      ELSE IF finalScore < 0 THEN LOSE_SCORE ELSE 0
         ordered == orderMoves(MoveToFront(moves, p.bestMove), sboard,
                               f.player, eng.pvMove)
     IN  /\ eng' = [eng EXCEPT !.nodesSearched = nodes]
         /\ \E t \in IsTimeUp(periodic) :
              /\ timeUp' = t
              /\ IF p.hit
                   THEN /\ ret' = RetOf(f, p.score, "tthit", FALSE, 0, FALSE)
                        /\ stack' = Tail(stack)
                        /\ UNCHANGED <<tt, obs>>
                 ELSE IF leaf
                   THEN /\ tt' = [tt EXCEPT !.table =
                                    store(tt.table, tt.currentAge, f.hash,
                                          f.depth, static, BOUND_EXACT,
                                          MOVE_NONE)]
                        /\ ret' = RetOf(f, static, "leaf", FALSE, 0,
                                        isTerminal(sboard, f.player))
                        /\ stack' = Tail(stack)
                        /\ obs' = IF isTerminal(sboard, f.player) THEN obs
                                  ELSE [obs EXCEPT !.maxHeur =
                                          Max2(@, Abs(static))]
                 ELSE IF periodic /\ (t \/ nodes >= eng.maxNodesLimit)
                   THEN /\ ret' = RetOf(f, static, "budget", TRUE, 0, FALSE)
                        /\ stack' = Tail(stack)
                        /\ UNCHANGED <<tt, obs>>
                 ELSE IF moves = <<>>
                   THEN IF ~hasValidMoves(sboard, opponent)
                          THEN /\ tt' = [tt EXCEPT !.table =
                                           store(tt.table, tt.currentAge,
                                                 f.hash, f.depth, overScore,
                                                 BOUND_EXACT, MOVE_NONE)]
                               /\ ret' = RetOf(f, overScore, "gameover",
                                               FALSE, 0, TRUE)
                               /\ stack' = Tail(stack)
                               /\ UNCHANGED obs
                          ELSE /\ stack' =
                                    <<Frame("negamax", opponent, f.depth - 1,
                                            -f.beta, -f.alpha,
                                            XOR(f.hash, zobristPlayer),
                                            sboard),
                                      [f EXCEPT !.phase = "waitpass"]>>
                                      \o Tail(stack)
                               /\ ret' = NoRet
                               /\ UNCHANGED <<tt, obs>>
                 ELSE /\ stack' = <<[f EXCEPT !.phase = "loop",
                                              !.moves = ordered,
                                              !.bestMove = ordered[1]]>>
                                    \o Tail(stack)
                      /\ ret' = NoRet
                      /\ UNCHANGED <<tt, obs>>
  /\ UNCHANGED <<sboard, srch, ai>>

\* Head of the loop of negamax: leave it or make the next move.
NegamaxLoop ==
  /\ stack # <<>>
  /\ Top.kind = "negamax"
  /\ Top.phase = "loop"
  /\ LET f == Top
         exhausted == f.i > Len(f.moves)
         limit == ~exhausted /\ eng.nodesSearched >= eng.maxNodesLimit
     IN  IF exhausted \/ limit
           THEN LET out == StoreAndReturn(f, tt.table, f.bestScore,
                                          IF limit THEN "nodelimit"
                                          ELSE "complete", limit)
                IN  /\ tt' = [tt EXCEPT !.table = out.table]
                    /\ ret' = out.ret
                    /\ stack' = Tail(stack)
                    /\ UNCHANGED sboard
           ELSE LET out == MakeAndCall(f)
                IN  /\ sboard' = out.board
                    /\ stack' = out.stack
                    /\ ret' = NoRet
                    /\ UNCHANGED tt
  /\ UNCHANGED <<eng, timeUp, obs, srch, ai>>

\* negamax after a child returned: unmake, best score, window, cutoff.
NegamaxAfterChild ==
  /\ stack # <<>>
  /\ Top.kind = "negamax"
  /\ Top.phase = "wait"
  /\ ret.valid
  /\ LET a == AfterCall(Top, -ret.value)
         cut == [a.frame EXCEPT !.bound = BOUND_LOWER, !.bestScore = a.frame.beta]
         out == StoreAndReturn(cut, tt.table, cut.bestScore, "cutoff", FALSE)
     IN  /\ sboard' = a.board
         /\ IF a.cutoff
              THEN /\ eng' = [eng EXCEPT !.cutoffs = @ + 1]
                   /\ tt' = [tt EXCEPT !.table = out.table]
                   /\ ret' = out.ret
                   /\ stack' = Tail(stack)
              ELSE /\ stack' = <<a.frame>> \o Tail(stack)
                   /\ ret' = NoRet
                   /\ UNCHANGED <<eng, tt>>
  /\ UNCHANGED <<timeUp, obs, srch, ai>>


\* The return from a pass without the negation.
NegamaxAfterPass_NoNegation ==
  /\ stack # <<>>
  /\ Top.kind = "negamax"
  /\ Top.phase = "waitpass"
  /\ ret.valid
  /\ ret' = RetOf(Top, ret.value, "pass", ret.cut, 0, FALSE)
  /\ stack' = Tail(stack)
  /\ UNCHANGED <<sboard, eng, tt, timeUp, obs, srch, ai>>

\* negamax after the call it made for a forced pass returned.
NegamaxAfterPass ==
  /\ stack # <<>>
  /\ Top.kind = "negamax"
  /\ Top.phase = "waitpass"
  /\ ret.valid
  /\ ret' = RetOf(Top, -ret.value, "pass", ret.cut, 0, FALSE)
  /\ stack' = Tail(stack)
  /\ UNCHANGED <<sboard, eng, tt, timeUp, obs, srch, ai>>

\* Head of the loop of rootSearch: leave it or make the next move.
RootLoop ==
  /\ stack # <<>>
  /\ Top.kind = "root"
  /\ Top.phase = "loop"
  /\ LET f == Top
         exhausted == f.i > Len(f.moves)
     IN  \E t \in IsTimeUp(~exhausted) :
           /\ timeUp' = t
           /\ IF exhausted \/ t \/ eng.nodesSearched >= eng.maxNodesLimit
                THEN LET out == StoreAndReturn(f, tt.table, f.bestMove,
                                   IF exhausted THEN "complete"
                                   ELSE IF t THEN "time" ELSE "nodelimit",
                                   ~exhausted)
                     IN  /\ tt' = [tt EXCEPT !.table = out.table]
                         /\ ret' = out.ret
                         /\ stack' = Tail(stack)
                         /\ obs' = [obs EXCEPT
                                      !.completeBest =
                                         IF exhausted THEN f.bestMove ELSE @,
                                      !.cutByTime = @ \/ (~exhausted /\ t)]
                         /\ UNCHANGED sboard
                ELSE LET out == MakeAndCall(f)
                     IN  /\ sboard' = out.board
                         /\ stack' = out.stack
                         /\ ret' = NoRet
                         /\ UNCHANGED <<tt, obs>>
  /\ UNCHANGED <<eng, srch, ai>>

\* rootSearch after a child returned: unmake, best move, window, cutoff.
RootAfterChild ==
  /\ stack # <<>>
  /\ Top.kind = "root"
  /\ Top.phase = "wait"
  /\ ret.valid
  /\ LET a == AfterCall(Top, -ret.value)
         cut == [a.frame EXCEPT !.bound = BOUND_LOWER]
         out == StoreAndReturn(cut, tt.table, cut.bestMove, "cutoff", FALSE)
     IN  /\ sboard' = a.board
         /\ IF a.cutoff
              THEN /\ eng' = [eng EXCEPT !.cutoffs = @ + 1]
                   /\ tt' = [tt EXCEPT !.table = out.table]
                   /\ ret' = out.ret
                   /\ stack' = Tail(stack)
              ELSE /\ stack' = <<a.frame>> \o Tail(stack)
                   /\ ret' = NoRet
                   /\ UNCHANGED <<eng, tt>>
  /\ UNCHANGED <<timeUp, obs, srch, ai>>

\* Head of the iterative-deepening loop of search: the first isTimeUp()
\* test and rootSearch from its first line to the head of its loop.
SearchLoop ==
  /\ srch.pc = "loop"
  /\ LET more == srch.depth <= srch.maxDepth
         moves == getValidMovesAI(sboard, srch.player)
         hash == computeHash(sboard, srch.player)
         ttMove == ttGetBestMove(tt.table, hash)
         ordered == orderMoves(MoveToFront(moves, ttMove), sboard,
                               srch.player, eng.pvMove)
         root == [Frame("root", srch.player, srch.depth, -INFINITY_SCORE,
                        INFINITY_SCORE, hash, sboard)
                    EXCEPT !.phase = "loop", !.moves = ordered,
                           !.bestMove = ordered[1]]
     IN  \E t \in IsTimeUp(more) :
           /\ timeUp' = t
           /\ IF ~more \/ t
                THEN /\ srch' = [srch EXCEPT !.pc = "finished"]
                     /\ UNCHANGED <<stack, ret>>
              ELSE IF moves = <<>>
                THEN /\ srch' = [srch EXCEPT !.pc = "inroot"]
                     /\ ret' = [NoRet EXCEPT !.valid = TRUE, !.kind = "root",
                                             !.value = MOVE_NONE,
                                             !.path = "nomoves",
                                             !.entry = sboard,
                                             !.player = srch.player,
                                             !.depth = srch.depth]
                     /\ UNCHANGED stack
              ELSE /\ srch' = [srch EXCEPT !.pc = "inroot"]
                   /\ stack' = <<root>>
                   /\ ret' = NoRet
  /\ UNCHANGED <<sboard, eng, tt, obs, ai>>

\* The tail of the loop of search without depth++.
SearchAfterRoot_NoIncrement ==
  /\ srch.pc = "inroot"
  /\ stack = <<>>
  /\ ret.valid
  /\ LET currentBest == ret.value
     IN  /\ eng' = IF currentBest # MOVE_NONE
                     THEN [eng EXCEPT !.pvMove = currentBest,
                                      !.maxDepthReached = srch.depth]
                     ELSE eng
         /\ \E t \in IsTimeUp(TRUE) :
              /\ timeUp' = t
              /\ srch' = [srch EXCEPT
                            !.bestMove = IF currentBest # MOVE_NONE
                                           THEN currentBest ELSE @,
                            !.pc = IF t THEN "finished" ELSE "loop"]
  /\ ret' = NoRet
  /\ UNCHANGED <<sboard, stack, tt, obs, ai>>

\* search after rootSearch returned: adopt its move, second isTimeUp() test.
SearchAfterRoot ==
  /\ srch.pc = "inroot"
  /\ stack = <<>>
  /\ ret.valid
  /\ LET currentBest == ret.value
     IN  /\ eng' = IF currentBest # MOVE_NONE
                     THEN [eng EXCEPT !.pvMove = currentBest,
                                      !.maxDepthReached = srch.depth]
                     ELSE eng
         /\ \E t \in IsTimeUp(TRUE) :
              /\ timeUp' = t
              /\ srch' = [srch EXCEPT
                            !.bestMove = IF currentBest # MOVE_NONE
                                           THEN currentBest ELSE @,
                            !.depth = IF t THEN @ ELSE @ + 1,
                            !.pc = IF t THEN "finished" ELSE "loop"]
  /\ ret' = NoRet
  /\ UNCHANGED <<sboard, stack, tt, obs, ai>>

(***************************************************************************)
(* AIEasy, AINormal and AIHard.  Their searches work on copies of the      *)
(* model and are functions of it (and, for AIHard, of the node limit).     *)
(***************************************************************************)
INT_MIN == -2147483647 - 1
INT_MAX == 2147483647
AINormal_MAX_DEPTH == 4
AIHard_MAX_DEPTH == 8
DEFAULT_NODE_LIMIT == 500000

\* AIEasy::getBestMove: the moves the random index can select.
AIEasy_getBestMove(m) ==
  LET validMoves == getValidMoves(m)
  IN  IF validMoves = <<>> THEN {MOVE_NONE}
      ELSE {validMoves[i] : i \in 1 .. Len(validMoves)}

AINormal_evaluateBoard(m, maximizingPlayer) ==
  LET myPieces == countBits(getPlayerBitboard(m.board, maximizingPlayer))
      oppPieces == countBits(getOpponentBitboard(m.board, maximizingPlayer))
  IN  IF m.gameOver
        THEN IF myPieces > oppPieces THEN 10000
             ELSE IF myPieces < oppPieces THEN -10000 ELSE 0
      ELSE myPieces - oppPieces

\* maxEval or minEval of minimax after a child returned eval.
AINormal_best(isMaximizing, best, eval) ==
  IF isMaximizing THEN Max2(best, eval) ELSE Min2(best, eval)

RECURSIVE AINormal_minimax(_, _, _, _)
RECURSIVE AINormal_minimaxLoop(_, _, _, _, _, _, _)
\* The two loops of minimax over validMoves, from element i on.
AINormal_minimaxLoop(m, validMoves, i, depth, isMaximizing, maximizingPlayer, best) ==
  IF i > Len(validMoves) THEN best
  ELSE AINormal_minimaxLoop(
         m, validMoves, i + 1, depth, isMaximizing, maximizingPlayer,
         AINormal_best(isMaximizing, best,
                       AINormal_minimax(playMove(m, validMoves[i]).model,
                                        depth - 1, ~isMaximizing,
                                        maximizingPlayer)))

AINormal_minimax(m, depth, isMaximizing, maximizingPlayer) ==
  IF depth = 0 \/ m.gameOver THEN AINormal_evaluateBoard(m, maximizingPlayer)
  ELSE
    LET validMoves == getValidMoves(m)
        nextModel == [m EXCEPT !.currentPlayer = getOpponent(m.currentPlayer)]
    IN  IF validMoves = <<>>
          THEN IF getValidMoves(nextModel) = <<>>
                 THEN AINormal_evaluateBoard([nextModel EXCEPT !.gameOver = TRUE],
                                             maximizingPlayer)
               ELSE AINormal_minimax(nextModel, depth - 1, ~isMaximizing,
                                     maximizingPlayer)
        ELSE AINormal_minimaxLoop(m, validMoves, 1, depth, isMaximizing,
                                  maximizingPlayer,
                                  IF isMaximizing THEN INT_MIN ELSE INT_MAX)

\* bestScore and bestMove of AINormal::getBestMove after a move scored.
AINormal_better(best, move, score) ==
  IF score > best.score THEN [score |-> score, move |-> move] ELSE best

\* The loop of AINormal::getBestMove, from element i on.
RECURSIVE AINormal_rootLoop(_, _, _, _, _)
AINormal_rootLoop(m, validMoves, i, currentPlayer, best) ==
  IF i > Len(validMoves) THEN best.move
  ELSE AINormal_rootLoop(
         m, validMoves, i + 1, currentPlayer,
         AINormal_better(best, validMoves[i],
                         AINormal_minimax(playMove(m, validMoves[i]).model,
                                          AINormal_MAX_DEPTH - 1, FALSE,
                                          currentPlayer)))

AINormal_getBestMove(m) ==
  LET validMoves == getValidMoves(m)
  IN  IF validMoves = <<>> THEN MOVE_NONE
      ELSE AINormal_rootLoop(m, validMoves, 1, getCurrentPlayer(m),
                             [score |-> INT_MIN, move |-> validMoves[1]])

POSITION_WEIGHTS ==
  << 500, -150, 30, 10, 10, 30, -150, 500,
     -150, -250, 0, 0, 0, 0, -250, -150,
     30, 0, 1, 2, 2, 1, 0, 30,
     10, 0, 2, 16, 16, 2, 0, 10,
     10, 0, 2, 16, 16, 2, 0, 10,
     30, 0, 1, 2, 2, 1, 0, 30,
     -150, -250, 0, 0, 0, 0, -250, -150,
     500, -150, 30, 10, 10, 30, -150, 500 >>

RECURSIVE SumWeights(_, _)
SumWeights(squares, acc) ==
  IF squares = {} THEN acc
  ELSE LET i == CHOOSE x \in squares : TRUE
       IN  SumWeights(squares \ {i}, acc + POSITION_WEIGHTS[i + 1])

countRegion(board, player, region) ==
  countBits(getPlayerBitboard(board, player) \cap region)

AIHard_evaluateBoard(m, maximizingPlayer) ==
  LET myBoard == getPlayerBitboard(m.board, maximizingPlayer)
      oppBoard == getOpponentBitboard(m.board, maximizingPlayer)
      myScore == countBits(myBoard)
      oppScore == countBits(oppBoard)
      positional == SumWeights(myBoard, 0) - SumWeights(oppBoard, 0)
      myMobility == getMoveCount(m.board, maximizingPlayer)
      oppMobility == getMoveCount(m.board, getOpponent(maximizingPlayer))
      totalPieces == countBits(myBoard \cup oppBoard)
      mobility == IF totalPieces < 50 THEN (myMobility - oppMobility) * 80
                  ELSE (myMobility - oppMobility) * 30
      pieces == IF totalPieces > 50 THEN (myScore - oppScore) * 150 ELSE 0
      corners == countRegion(m.board, maximizingPlayer, CORNERS) * 500
                 - countRegion(m.board, getOpponent(maximizingPlayer), CORNERS)
                   * 500
  IN  IF m.gameOver
        THEN IF myScore > oppScore THEN 100000
             ELSE IF myScore < oppScore THEN -100000 ELSE 0
      ELSE positional + mobility + pieces + corners

\* The std::sort of alphaBeta: descending POSITION_WEIGHTS.
RECURSIVE InsertByWeight(_, _)
InsertByWeight(sorted, move) ==
  IF sorted = <<>> THEN <<move>>
  ELSE IF POSITION_WEIGHTS[move + 1] > POSITION_WEIGHTS[sorted[Len(sorted)] + 1]
    THEN Append(InsertByWeight(SubSeq(sorted, 1, Len(sorted) - 1), move),
                sorted[Len(sorted)])
  ELSE Append(sorted, move)

RECURSIVE SortByWeight(_, _)
SortByWeight(sorted, rest) ==
  IF rest = <<>> THEN sorted
  ELSE SortByWeight(InsertByWeight(sorted, Head(rest)), Tail(rest))

\* alphaBeta returns its value together with nodesExplored after the call.
RECURSIVE AIHard_alphaBeta(_, _, _, _, _, _, _, _)
RECURSIVE AIHard_alphaBetaLoop(_, _, _, _, _, _, _, _, _, _, _)
\* One round of a loop of alphaBeta after the child returned r: the
\* pruning break or the next element.
AIHard_afterChild(m, validMoves, i, depth, alpha, beta, isMaximizing, maximizingPlayer, maxNodes, best, r) ==
  LET best1 == IF isMaximizing THEN Max2(best, r.eval) ELSE Min2(best, r.eval)
      alpha1 == IF isMaximizing THEN Max2(alpha, r.eval) ELSE alpha
      beta1 == IF isMaximizing THEN beta ELSE Min2(beta, r.eval)
  IN  IF beta1 <= alpha1 THEN [eval |-> best1, nodes |-> r.nodes]
      ELSE AIHard_alphaBetaLoop(m, validMoves, i + 1, depth, alpha1, beta1,
                                isMaximizing, maximizingPlayer, maxNodes,
                                r.nodes, best1)

\* The two loops of alphaBeta over validMoves, from element i on.
AIHard_alphaBetaLoop(m, validMoves, i, depth, alpha, beta, isMaximizing, maximizingPlayer, maxNodes, nodes, best) ==
  IF i > Len(validMoves) \/ nodes >= maxNodes
    THEN [eval |-> best, nodes |-> nodes]
  ELSE AIHard_afterChild(
         m, validMoves, i, depth, alpha, beta, isMaximizing,
         maximizingPlayer, maxNodes, best,
         AIHard_alphaBeta(playMove(m, validMoves[i]).model, depth - 1, alpha,
                          beta, ~isMaximizing, maximizingPlayer, maxNodes,
                          nodes))

\* alphaBeta below its leaf test, for the valid moves of m.
AIHard_expand(m, validMoves, depth, alpha, beta, isMaximizing, maximizingPlayer, maxNodes, nodes) ==
  LET nextModel == [m EXCEPT !.currentPlayer = getOpponent(m.currentPlayer)]
  IN  IF validMoves # <<>>
        THEN AIHard_alphaBetaLoop(m, SortByWeight(<<>>, validMoves), 1, depth,
                                  alpha, beta, isMaximizing, maximizingPlayer,
                                  maxNodes, nodes,
                                  IF isMaximizing THEN INT_MIN ELSE INT_MAX)
      ELSE IF getValidMoves(nextModel) = <<>>
        THEN [eval |-> AIHard_evaluateBoard(
                         [nextModel EXCEPT !.gameOver = TRUE],
                         maximizingPlayer),
              nodes |-> nodes]
      ELSE AIHard_alphaBeta(nextModel, depth - 1, alpha, beta, ~isMaximizing,
                            maximizingPlayer, maxNodes, nodes)

AIHard_alphaBeta(m, depth, alpha, beta, isMaximizing, maximizingPlayer, maxNodes, nodesExplored) ==
  IF nodesExplored + 1 >= maxNodes \/ depth = 0 \/ m.gameOver
    THEN [eval |-> AIHard_evaluateBoard(m, maximizingPlayer),
          nodes |-> nodesExplored + 1]
  ELSE AIHard_expand(m, getValidMoves(m), depth, alpha, beta, isMaximizing,
                     maximizingPlayer, maxNodes, nodesExplored + 1)

\* bestScore, bestMove and nodesExplored of AIHard::getBestMove after the
\* search of move returned r.
AIHard_better(best, move, r) ==
  IF r.eval > best.score
    THEN [score |-> r.eval, move |-> move, nodes |-> r.nodes]
  ELSE [best EXCEPT !.nodes = r.nodes]

\* The loop of AIHard::getBestMove, from element i on.
RECURSIVE AIHard_rootLoop(_, _, _, _, _, _, _)
AIHard_rootLoop(m, validMoves, i, searchDepth, currentPlayer, maxNodes, best) ==
  IF i > Len(validMoves) \/ best.nodes >= maxNodes THEN best.move
  ELSE AIHard_rootLoop(
         m, validMoves, i + 1, searchDepth, currentPlayer, maxNodes,
         AIHard_better(best, validMoves[i],
                       AIHard_alphaBeta(playMove(m, validMoves[i]).model,
                                        searchDepth - 1, INT_MIN, INT_MAX,
                                        FALSE, currentPlayer, maxNodes,
                                        best.nodes)))

\* The search depth AIHard::getBestMove chooses for a disc count.
AIHard_searchDepth(totalPieces) ==
  IF totalPieces > 52 THEN Min2(64 - totalPieces, 15)
  ELSE IF totalPieces < 20 THEN AIHard_MAX_DEPTH - 2
  ELSE AIHard_MAX_DEPTH

\* AIHard::getBestMove for the valid moves of m.
AIHard_searchRoot(m, validMoves, maxNodes) ==
  IF validMoves = <<>> THEN MOVE_NONE
  ELSE AIHard_rootLoop(m, validMoves, 1,
                       AIHard_searchDepth(getDiscCount(m.board)),
                       getCurrentPlayer(m), maxNodes,
                       [score |-> INT_MIN, move |-> validMoves[1], nodes |-> 0])

AIHard_getBestMove(m, maxNodes) ==
  AIHard_searchRoot(m, getValidMoves(m), maxNodes)


(***************************************************************************)
(* The calls of minimax and alphaBeta made by one getBestMove: for each    *)
(* call the side to move of its model and its arguments.                   *)
(***************************************************************************)
SearchCall(m, depth, isMaximizing, maximizingPlayer) ==
  [currentPlayer |-> m.currentPlayer, gameOver |-> m.gameOver, depth |-> depth,
   isMaximizing |-> isMaximizing, maximizingPlayer |-> maximizingPlayer]

\* The call minimax(m, depth, isMaximizing, maximizingPlayer) and the
\* calls made below it.
RECURSIVE AINormal_minimaxCalls(_, _, _, _)
AINormal_minimaxCalls(m, depth, isMaximizing, maximizingPlayer) ==
  {SearchCall(m, depth, isMaximizing, maximizingPlayer)}
    \cup
  IF depth = 0 \/ m.gameOver THEN {}
  ELSE
    LET validMoves == getValidMoves(m)
        nextModel == [m EXCEPT !.currentPlayer = getOpponent(m.currentPlayer)]
    IN  IF validMoves = <<>>
          THEN IF getValidMoves(nextModel) = <<>> THEN {}
               ELSE AINormal_minimaxCalls(nextModel, depth - 1, ~isMaximizing,
                                          maximizingPlayer)
        ELSE UNION {AINormal_minimaxCalls(playMove(m, validMoves[i]).model,
                                          depth - 1, ~isMaximizing,
                                          maximizingPlayer) :
                      i \in 1 .. Len(validMoves)}

\* The calls of minimax made by AINormal::getBestMove.
AINormal_getBestMoveCalls(m) ==
  UNION {AINormal_minimaxCalls(playMove(m, getValidMoves(m)[i]).model,
                               AINormal_MAX_DEPTH - 1, FALSE,
                               getCurrentPlayer(m)) :
           i \in 1 .. Len(getValidMoves(m))}

RECURSIVE AIHard_alphaBetaCalls(_, _, _, _, _, _, _, _)
RECURSIVE AIHard_loopCalls(_, _, _, _, _, _, _, _, _, _)
\* One round of a loop of alphaBeta after the child returned r: the
\* calls of the rounds that follow, none after the pruning break.
AIHard_callsAfterChild(m, validMoves, i, depth, alpha, beta, isMaximizing, maximizingPlayer, maxNodes, r) ==
  LET alpha1 == IF isMaximizing THEN Max2(alpha, r.eval) ELSE alpha
      beta1 == IF isMaximizing THEN beta ELSE Min2(beta, r.eval)
  IN  IF beta1 <= alpha1 THEN {}
      ELSE AIHard_loopCalls(m, validMoves, i + 1, depth, alpha1, beta1,
                            isMaximizing, maximizingPlayer, maxNodes, r.nodes)

\* The calls made by the two loops of alphaBeta, from element i on.
AIHard_loopCalls(m, validMoves, i, depth, alpha, beta, isMaximizing, maximizingPlayer, maxNodes, nodes) ==
  IF i > Len(validMoves) \/ nodes >= maxNodes THEN {}
  ELSE AIHard_alphaBetaCalls(playMove(m, validMoves[i]).model, depth - 1,
                             alpha, beta, ~isMaximizing, maximizingPlayer,
                             maxNodes, nodes)
         \cup
       AIHard_callsAfterChild(
         m, validMoves, i, depth, alpha, beta, isMaximizing,
         maximizingPlayer, maxNodes,
         AIHard_alphaBeta(playMove(m, validMoves[i]).model, depth - 1, alpha,
                          beta, ~isMaximizing, maximizingPlayer, maxNodes,
                          nodes))

\* The call alphaBeta(m, depth, alpha, beta, isMaximizing, maximizingPlayer)
\* entered with nodesExplored, and the calls made below it.
AIHard_alphaBetaCalls(m, depth, alpha, beta, isMaximizing, maximizingPlayer, maxNodes, nodesExplored) ==
  {SearchCall(m, depth, isMaximizing, maximizingPlayer)}
    \cup
  IF nodesExplored + 1 >= maxNodes \/ depth = 0 \/ m.gameOver THEN {}
  ELSE IF getValidMoves(m) # <<>>
    THEN AIHard_loopCalls(m, SortByWeight(<<>>, getValidMoves(m)), 1, depth,
                          alpha, beta, isMaximizing, maximizingPlayer,
                          maxNodes, nodesExplored + 1)
  ELSE IF getValidMoves([m EXCEPT !.currentPlayer = getOpponent(m.currentPlayer)]) = <<>>
    THEN {}
  ELSE AIHard_alphaBetaCalls(
         [m EXCEPT !.currentPlayer = getOpponent(m.currentPlayer)],
         depth - 1, alpha, beta, ~isMaximizing, maximizingPlayer, maxNodes,
         nodesExplored + 1)

\* The calls of alphaBeta made by the loop of AIHard::getBestMove, from
\* element i on.
RECURSIVE AIHard_rootCalls(_, _, _, _, _, _, _)
AIHard_rootCalls(m, validMoves, i, searchDepth, currentPlayer, maxNodes, nodes) ==
  IF i > Len(validMoves) \/ nodes >= maxNodes THEN {}
  ELSE AIHard_alphaBetaCalls(playMove(m, validMoves[i]).model,
                             searchDepth - 1, INT_MIN, INT_MAX, FALSE,
                             currentPlayer, maxNodes, nodes)
         \cup
       AIHard_rootCalls(
         m, validMoves, i + 1, searchDepth, currentPlayer, maxNodes,
         AIHard_alphaBeta(playMove(m, validMoves[i]).model, searchDepth - 1,
                          INT_MIN, INT_MAX, FALSE, currentPlayer, maxNodes,
                          nodes).nodes)

\* The calls of alphaBeta made by AIHard::getBestMove.
AIHard_getBestMoveCalls(m, maxNodes) ==
  AIHard_rootCalls(m, getValidMoves(m), 1,
                   AIHard_searchDepth(getDiscCount(m.board)),
                   getCurrentPlayer(m), maxNodes, 0)
(***************************************************************************)
(* The AI instance and its getBestMove                                     *)
(***************************************************************************)
\* Node limits given to setNodeLimit: a limit hit inside the second
\* iteration, one hit a few iterations later, and one that lets
\* nodesSearched reach the periodic budget test of negamax.
NodeLimits == {5, 40, 1024}

\* Opening lines the controller plays before the AI is asked: one move,
\* the first book move, a game that ends after nine moves with no white
\* disc left (and the position two moves before its end), and a line
\* after which black has to pass (and the position two moves before).
Lines ==
  {<<26>>, <<37>>,
   <<37, 43, 34, 29, 52, 45, 38>>, <<37, 43, 34, 29, 52, 45, 38, 44, 20>>,
   <<26, 18, 10, 9, 37, 2>>, <<26, 18, 10, 9, 37, 2, 0, 16>>}

\* Game records of the book file; the last two start on a corner, which
\* is not a legal opening move.
BookGames ==
  <<[moves |-> <<37, 43, 34, 29, 52, 45, 38, 44, 20>>, blackScore |-> 64],
    [moves |-> <<37, 43, 34>>, blackScore |-> 40],
    [moves |-> <<37, 45>>, blackScore |-> 32],
    [moves |-> <<0>>, blackScore |-> 20],
    [moves |-> <<0>>, blackScore |-> 24]>>

\* The book after the constructor of AIExtreme loaded the file.
LoadedBook == AddGames(EmptyBook, BookGames)

NewAI(tier, book) ==
  [tier |-> tier, moveCount |-> 0, maxNodes |-> DEFAULT_NODE_LIMIT,
   book |-> book]

\* main(): initializeAI(AI_EXTREME).
SearchInit ==
  /\ ai = NewAI(AI_EXTREME, LoadedBook)
  /\ srch = IdleSearch
  /\ sboard = NoBoard
  /\ stack = <<>>
  /\ ret = NoRet
  /\ eng = NewEngine(0)
  /\ tt = NewTT
  /\ timeUp = FALSE
  /\ obs = NoObs

\* createAI(difficulty): a new instance replaces the old one.
CreateAI(difficulty) ==
  /\ srch.pc = "idle"
  /\ ai' = NewAI(difficulty, IF difficulty = AI_EXTREME THEN LoadedBook
                               ELSE EmptyBook)
  /\ eng' = NewEngine(0)
  /\ tt' = NewTT
  /\ UNCHANGED <<srch, sboard, stack, ret, timeUp, obs>>
  /\ UNCHANGED <<gameVars, unitVars>>

\* setNodeLimit of AIHard and AIExtreme (AINormal keeps the limit in a
\* field its search never reads).
SetNodeLimit(limit) ==
  /\ srch.pc = "idle"
  /\ ai.tier \in {AI_HARD, AI_EXTREME}
  /\ IF ai.tier = AI_HARD
       THEN /\ ai' = [ai EXCEPT !.maxNodes =
                        IF limit > 0 THEN limit ELSE DEFAULT_NODE_LIMIT]
            /\ UNCHANGED eng
       ELSE /\ eng' = [eng EXCEPT !.maxNodesLimit =
                         NewEngine(limit).maxNodesLimit]
            /\ UNCHANGED ai
  /\ UNCHANGED <<srch, sboard, stack, ret, tt, timeUp, obs>>
  /\ UNCHANGED <<gameVars, unitVars>>

Done(move) == [IdleSearch EXCEPT !.pc = "done", !.result = move]

EasyGetBestMove ==
  /\ srch.pc = "idle"
  /\ ai.tier = AI_EASY
  /\ \E move \in AIEasy_getBestMove(model) : srch' = Done(move)
  /\ UNCHANGED <<ai, sboard, stack, ret, eng, tt, timeUp, obs>>
  /\ UNCHANGED <<gameVars, unitVars>>

NormalGetBestMove ==
  /\ srch.pc = "idle"
  /\ ai.tier = AI_NORMAL
  /\ srch' = Done(AINormal_getBestMove(model))
  /\ UNCHANGED <<ai, sboard, stack, ret, eng, tt, timeUp, obs>>
  /\ UNCHANGED <<gameVars, unitVars>>

\* Explored for node limits up to MaxHardNodes.
HardGetBestMove ==
  /\ srch.pc = "idle"
  /\ ai.tier = AI_HARD
  /\ ai.maxNodes <= MaxHardNodes
  /\ srch' = Done(AIHard_getBestMove(model, ai.maxNodes))
  /\ UNCHANGED <<ai, sboard, stack, ret, eng, tt, timeUp, obs>>
  /\ UNCHANGED <<gameVars, unitVars>>

\* The test of the book move without the search in validMoves.
BookMoveUsed_Unverified(bookMove, validMoves) == bookMove # MOVE_NONE

\* The book move AIExtreme::getBestMove returns, if any: the probe result
\* when it is a move of validMoves.
BookMoveUsed(bookMove, validMoves) ==
  bookMove # MOVE_NONE /\ \E i \in 1 .. Len(validMoves) : validMoves[i] = bookMove

\* AIExtreme::getBestMove up to the first line of the loop of search().
\* Explored for the node limits of NodeLimits.
ExtremeGetBestMove ==
  /\ srch.pc = "idle"
  /\ ai.tier = AI_EXTREME
  /\ eng.maxNodesLimit \in NodeLimits
  /\ LET totalPieces == getDiscCount(model.board)
         moveCount == IF totalPieces <= 6 THEN 0 ELSE ai.moveCount
         board == model.board
         player == model.currentPlayer
         validMoves == getValidMovesAI(board, player)
         maxDepth == IF getEmptyCount(board) <= ENDGAME_THRESHOLD
                       THEN ENDGAME_DEPTH ELSE MAX_SEARCH_DEPTH
     IN  IF validMoves = <<>>
           THEN /\ srch' = Done(MOVE_NONE)
                /\ ai' = [ai EXCEPT !.moveCount = moveCount]
                /\ UNCHANGED <<sboard, eng, tt, timeUp, obs>>
         ELSE IF Len(validMoves) = 1
           THEN /\ srch' = Done(validMoves[1])
                /\ ai' = [ai EXCEPT !.moveCount = moveCount + 1]
                /\ UNCHANGED <<sboard, eng, tt, timeUp, obs>>
         ELSE \E bookMove \in bookProbe(ai.book, board, player, moveCount) :
                IF BookMoveUsed(bookMove, validMoves)
                  THEN /\ srch' = Done(bookMove)
                       /\ ai' = [ai EXCEPT !.moveCount = moveCount + 1]
                       /\ UNCHANGED <<sboard, eng, tt, timeUp, obs>>
                ELSE /\ srch' = [pc |-> "loop", player |-> player,
                                 validMoves |-> validMoves,
                                 bestMove |-> MOVE_NONE, depth |-> 1,
                                 maxDepth |-> maxDepth, result |-> MOVE_NONE]
                     /\ ai' = [ai EXCEPT !.moveCount = moveCount]
                     /\ sboard' = board
                     /\ eng' = [eng EXCEPT !.nodesSearched = 0, !.cutoffs = 0,
                                           !.maxDepthReached = 0]
                     /\ tt' = [tt EXCEPT !.currentAge = newSearch(@)]
                     /\ timeUp' = FALSE
                     /\ obs' = NoObs
  /\ UNCHANGED <<stack, ret>>
  /\ UNCHANGED <<gameVars, unitVars>>

\* AIExtreme::getBestMove after search() returned.
ExtremeFinish ==
  /\ srch.pc = "finished"
  /\ srch' = [srch EXCEPT !.pc = "done",
                          !.result = IF srch.bestMove = MOVE_NONE
                                       THEN srch.validMoves[1]
                                       ELSE srch.bestMove]
  /\ ai' = [ai EXCEPT !.moveCount = @ + 1]
  /\ UNCHANGED <<sboard, stack, ret, eng, tt, timeUp, obs>>
  /\ UNCHANGED <<gameVars, unitVars>>

(***************************************************************************)
(* Opening book files                                                      *)
(***************************************************************************)
\* Integer division of C++, which truncates toward zero.
TruncDiv(a, b) == IF a < 0 THEN -((-a) \div b) ELSE a \div b

\* The square of (col, row) is row * 8 + col.
decodeWThorMove(wthorMove) ==
  LET decoded == wthorMove - 10
      row == TruncDiv(decoded, 10)
      col == decoded - 10 * TruncDiv(decoded, 10)
  IN  IF wthorMove = 0 THEN MOVE_NONE
      ELSE IF row < 0 \/ row >= 8 \/ col < 0 \/ col >= 8 THEN MOVE_NONE
      ELSE row * 8 + col

\* A game record is 68 bytes: byte 7 is the score, bytes 8..67 the moves.
\* It is kept as [score, moves]; the move bytes after the last one written
\* in moves are 0.
GameByte(gameData, i) ==
  IF i - 7 <= Len(gameData.moves) THEN gameData.moves[i - 7] ELSE 0

\* The inner loop of loadWTBFile over bytes 8..67 of one record.
RECURSIVE DecodeMoves(_, _, _)
DecodeMoves(gameData, i, moves) ==
  IF i >= 68 THEN moves
  ELSE IF decodeWThorMove(GameByte(gameData, i)) = MOVE_NONE THEN moves
  ELSE DecodeMoves(gameData, i + 1,
                   Append(moves, decodeWThorMove(GameByte(gameData, i))))

\* The loop of loadWTBFile over the records: file.read of 68 bytes fails on
\* a record that is not completely there.
RECURSIVE LoadGames(_, _, _, _)
LoadGames(book, file, g, gamesLoaded) ==
  IF g >= file.gameCount THEN [book |-> book, gamesLoaded |-> gamesLoaded]
  ELSE IF g + 1 > Len(file.records)
    THEN [book |-> book, gamesLoaded |-> gamesLoaded]
  ELSE
    LET gameData == file.records[g + 1]
        moves == DecodeMoves(gameData, 8, <<>>)
        blackScore == gameData.score
    IN  IF blackScore >= 0 /\ blackScore <= 64 /\ moves # <<>>
          THEN LoadGames(addGame(book, moves, blackScore), file, g + 1,
                         gamesLoaded + 1)
          ELSE LoadGames(book, file, g + 1, gamesLoaded)

\* loadWTBFile returning the count of the header.
loadWTBFile_HeaderCount(book, file) ==
  [book |-> LoadGames(book, file, 0, 0).book, gamesLoaded |-> file.gameCount]

\* A file is [open, headerBytes, gameCount, records, tailBytes]: whether it
\* can be opened, how many bytes of the 16-byte header are there, the count
\* in bytes 4..7, the complete records and the bytes of a cut last record.
loadWTBFile(book, file) ==
  IF ~file.open THEN [book |-> book, gamesLoaded |-> 0]
  ELSE IF file.headerBytes < 16 THEN [book |-> book, gamesLoaded |-> 0]
  ELSE LoadGames(book, file, 0, 0)

NewOpeningBook ==
  [book |-> EmptyBook, totalGamesLoaded |-> 0, totalPositions |-> 0,
   loads |-> 0, file |-> <<>>, loaded |-> 0, before |-> EmptyBook]

loadFile(ob, file) ==
  LET r == loadWTBFile(ob.book, file)
  IN  [book |-> r.book,
       totalGamesLoaded |-> ob.totalGamesLoaded + r.gamesLoaded,
       totalPositions |-> Cardinality(DOMAIN r.book),
       loads |-> ob.loads + 1, file |-> file, loaded |-> r.gamesLoaded,
       before |-> ob.book]

\* The records a file is made of: two games, a score byte of 65, and a
\* first move byte that decodes to no square.
GameRecords ==
  {[score |-> 40, moves |-> <<55, 63, 52>>],
   [score |-> 32, moves |-> <<55, 99, 63>>],
   [score |-> 65, moves |-> <<55, 63>>],
   [score |-> 30, moves |-> <<9, 55>>]}

HeaderCounts == {1, 2, 10}

RecordLists == UNION {[1 .. n -> GameRecords] : n \in 0 .. MaxRecords}

BookFiles ==
  {[open |-> TRUE, headerBytes |-> 16, gameCount |-> c, records |-> r,
    tailBytes |-> t] : c \in HeaderCounts, r \in RecordLists, t \in {0, 30}}
  \cup {[open |-> FALSE, headerBytes |-> 0, gameCount |-> 0, records |-> <<>>,
         tailBytes |-> 0],
        [open |-> TRUE, headerBytes |-> 7, gameCount |-> 0, records |-> <<>>,
         tailBytes |-> 0]}

\* AIExtreme::loadOpeningBook(path) for a file: book->loadFile(path).
LoadFile(file) ==
  /\ io.loads < MaxLoads
  /\ io' = loadFile(io, file)
  /\ UNCHANGED <<gameVars, searchVars, call, ctl>>

(***************************************************************************)
(* Board functions applied to input boards                                 *)
(***************************************************************************)
\* The functions keep no state: each is applied to the input board as given.
IdleCall ==
  [op |-> "none", board |-> [black |-> {}, white |-> {}],
   player |-> PLAYER_BLACK, move |-> MOVE_NONE, bitmap |-> {}, flag |-> FALSE]

\* Boards without an empty square: black holds a mask, white the rest.
FullMasks ==
  {{}, Squares, CORNERS, CORNERS \cup EDGES, CORNERS \cup X_SQUARES,
   {s \in Squares : s % 2 = 0}, {s \in Squares : ((s % 8) + (s \div 8)) % 2 = 0},
   {s \in Squares : s < 32}, {s \in Squares : (s % 8) < 3} \cup CORNERS}

FullBoards == {[black |-> mask, white |-> Squares \ mask] : mask \in FullMasks}

\* Full boards with one square taken out.
NearFullBoards ==
  {[black |-> b.black \ {e}, white |-> b.white \ {e}] :
     b \in FullBoards, e \in {0, 7, 27, 62}}

\* Boards with about a third of the squares for each side and a third empty.
PatternBoard(k) ==
  [black |-> {s \in Squares : (s * s + k * s + k) % 3 = 0},
   white |-> {s \in Squares : (s * s + k * s + k) % 3 = 1}]

\* Runs that end on an edge square, runs next to a file or rank boundary,
\* the start position and the empty board.
EdgeBoards ==
  {[black |-> {0}, white |-> {1, 2, 3, 4, 5, 6}],
   [black |-> {63}, white |-> {54, 45, 36, 27, 18, 9}],
   [black |-> {56, 9}, white |-> {48, 40, 32, 24, 16, 7, 8}],
   [black |-> {9, 57, 6}, white |-> {7, 8, 55, 56}],
   [black |-> {26, 23, 39}, white |-> {25, 24, 31, 32}],
   [black |-> initialPosition[1], white |-> initialPosition[2]],
   [black |-> {}, white |-> {}]}

BoardInputs ==
  FullBoards \cup NearFullBoards \cup EdgeBoards
    \cup {PatternBoard(k) : k \in 1 .. MaxPatterns}

GetValidMovesBitmap(player) ==
  /\ call.op = "none"
  /\ call' = [IdleCall EXCEPT !.op = "getValidMovesBitmap",
                              !.board = call.board, !.player = player,
                              !.bitmap = getValidMovesBitmap(
                                 getPlayerBitboard(call.board, player),
                                 getOpponentBitboard(call.board, player))]
  /\ UNCHANGED <<gameVars, searchVars, io, ctl>>

IsTerminal(player) ==
  /\ call.op = "none"
  /\ call' = [IdleCall EXCEPT !.op = "isTerminal", !.board = call.board,
                              !.player = player,
                              !.flag = isTerminal(call.board, player)]
  /\ UNCHANGED <<gameVars, searchVars, io, ctl>>

CalculateFlips(player, move) ==
  /\ call.op = "none"
  /\ call' = [IdleCall EXCEPT !.op = "calculateFlips", !.board = call.board,
                              !.player = player, !.move = move,
                              !.bitmap = calculateFlips(
                                 getPlayerBitboard(call.board, player),
                                 getOpponentBitboard(call.board, player),
                                 move)]
  /\ UNCHANGED <<gameVars, searchVars, io, ctl>>
(***************************************************************************)
(* Controller: the main thread and the AI worker thread                    *)
(***************************************************************************)
\* currentAI is the number of the live AI instance, 0 for a null pointer;
\* an instance that was replaced is destroyed.  workers holds every thread
\* ever launched, aiThread the index of the one the handle refers to.
NewController ==
  [currentAI |-> 1, instances |-> 1, currentDifficulty |-> 1,
   scheduledDifficulty |-> -1, aiThreadRunning |-> FALSE,
   aiThread |-> 0, joinable |-> FALSE, aiThinking |-> FALSE,
   aiMove |-> MOVE_NONE, workers |-> <<>>,
   pc |-> "idle", arg |-> 0, isThinking |-> FALSE, move |-> MOVE_NONE]

NewWorker ==
  [pc |-> "copy", ai |-> 0, bestMove |-> MOVE_NONE,
   localModel |-> [gameOver |-> TRUE, board |-> [black |-> {}, white |-> {}],
                   currentPlayer |-> PLAYER_BLACK]]

\* aiThread.join() returns once the thread of the handle has ended.
JoinReturns_NoWait == TRUE

JoinReturns ==
  IF ctl.joinable THEN ctl.workers[ctl.aiThread].pc = "exited" ELSE TRUE

\* initializeAI: currentAI = AIFactory::createAI(difficulty).
initializeAI(c, difficulty) ==
  [c EXCEPT !.currentAI = c.instances + 1, !.instances = c.instances + 1]

\* changeAIDifficulty after its join.
changeAIDifficulty(c, difficulty) ==
  initializeAI([c EXCEPT !.joinable = FALSE, !.currentDifficulty = difficulty],
               difficulty)

\* aiWorkerFunction, first block: the copy of the model under aiMutex.
WorkerCopy(w) ==
  /\ ctl.workers[w].pc = "copy"
  /\ ctl' = [ctl EXCEPT !.workers[w].pc = "check",
                        !.workers[w].localModel = model]
  /\ UNCHANGED <<gameVars, searchVars, io, call>>

\* if (!currentAI) ... return; otherwise enter currentAI->getBestMove.
WorkerCall(w) ==
  /\ ctl.workers[w].pc = "check"
  /\ ctl' = IF ctl.currentAI = 0
              THEN [ctl EXCEPT !.aiThinking = FALSE, !.workers[w].pc = "clear"]
              ELSE [ctl EXCEPT !.workers[w].pc = "getBestMove",
                               !.workers[w].ai = ctl.currentAI]
  /\ UNCHANGED <<gameVars, searchVars, io, call>>

\* The moves getBestMove can answer for the copied model: the first or the
\* last legal square, MOVE_NONE when there is none.
BestMoves(m) ==
  LET legal == getValidMovesBitmap(getPlayerBitboard(m.board, m.currentPlayer),
                                   getOpponentBitboard(m.board, m.currentPlayer))
  IN  IF legal = {} THEN {MOVE_NONE}
      ELSE {s \in legal : (\A x \in legal : s <= x) \/ (\A x \in legal : s >= x)}

\* getBestMove returns.
WorkerReturn(w) ==
  /\ ctl.workers[w].pc = "getBestMove"
  /\ \E bestMove \in BestMoves(ctl.workers[w].localModel) :
       ctl' = [ctl EXCEPT !.workers[w].pc = "store",
                          !.workers[w].bestMove = bestMove]
  /\ UNCHANGED <<gameVars, searchVars, io, call>>

\* The result stored under aiMutex.
WorkerStore(w) ==
  /\ ctl.workers[w].pc = "store"
  /\ ctl' = [ctl EXCEPT !.aiMove = ctl.workers[w].bestMove,
                        !.aiThinking = FALSE, !.workers[w].pc = "clear"]
  /\ UNCHANGED <<gameVars, searchVars, io, call>>

\* aiThreadRunning = false, and the thread ends.
WorkerExit(w) ==
  /\ ctl.workers[w].pc = "clear"
  /\ ctl' = [ctl EXCEPT !.aiThreadRunning = FALSE, !.workers[w].pc = "exited"]
  /\ UNCHANGED <<gameVars, searchVars, io, call>>

\* startAIThinking up to its join; it returns at once without an AI.
StartAIThinking ==
  /\ ctl.pc = "idle"
  /\ Len(ctl.workers) < MaxStarts
  /\ ctl.currentAI # 0
  /\ ctl' = [ctl EXCEPT !.pc = "startJoin"]
  /\ UNCHANGED <<gameVars, searchVars, io, call>>

\* startAIThinking from the return of join: the flags and the new thread.
StartAIThinkingLaunch ==
  /\ ctl.pc = "startJoin"
  /\ JoinReturns
  /\ ctl' = [ctl EXCEPT !.aiThinking = TRUE, !.aiMove = MOVE_NONE,
                        !.aiThreadRunning = TRUE,
                        !.workers = Append(ctl.workers, NewWorker),
                        !.aiThread = Len(ctl.workers) + 1,
                        !.joinable = TRUE, !.pc = "idle"]
  /\ UNCHANGED <<gameVars, searchVars, io, call>>

\* cancelAIIfRunning: the test of aiThreadRunning and the block under
\* aiMutex.
CancelAIIfRunning ==
  /\ ctl.pc = "idle"
  /\ ctl.aiThreadRunning
  /\ ctl' = [ctl EXCEPT !.aiThinking = FALSE, !.aiMove = MOVE_NONE,
                        !.pc = "cancelFlag"]
  /\ UNCHANGED <<gameVars, searchVars, io, call>>

CancelClearFlag ==
  /\ ctl.pc = "cancelFlag"
  /\ ctl' = [ctl EXCEPT !.aiThreadRunning = FALSE, !.pc = "cancelJoin"]
  /\ UNCHANGED <<gameVars, searchVars, io, call>>

CancelJoin ==
  /\ ctl.pc = "cancelJoin"
  /\ JoinReturns
  /\ ctl' = [ctl EXCEPT !.joinable = FALSE, !.pc = "idle"]
  /\ UNCHANGED <<gameVars, searchVars, io, call>>

\* checkAndApplyAIMove: the read under aiMutex and the test on it.
CheckAndApplyAIMove ==
  /\ ctl.pc = "idle"
  /\ ~ctl.aiThinking
  /\ ctl.aiMove # MOVE_NONE
  /\ ctl' = [ctl EXCEPT !.isThinking = ctl.aiThinking, !.move = ctl.aiMove,
                        !.pc = "checkPlay"]
  /\ UNCHANGED <<gameVars, searchVars, io, call>>

\* playMove(model, move) and the stored move cleared under aiMutex.
CheckPlayMove ==
  /\ ctl.pc = "checkPlay"
  /\ model' = playMove(model, ctl.move).model
  /\ ctl' = [ctl EXCEPT !.aiMove = MOVE_NONE, !.pc = "checkJoin"]
  /\ UNCHANGED <<undo, ops, last, history, searchVars, io, call>>

\* The join of checkAndApplyAIMove and applyScheduledDifficultyIfAny.
CheckJoinAndApply ==
  /\ ctl.pc = "checkJoin"
  /\ JoinReturns
  /\ ctl' = IF ctl.scheduledDifficulty = -1
              THEN [ctl EXCEPT !.joinable = FALSE, !.pc = "idle",
                               !.move = MOVE_NONE]
            ELSE IF ctl.aiThreadRunning
              THEN [ctl EXCEPT !.joinable = FALSE, !.pc = "idle",
                               !.move = MOVE_NONE]
            ELSE [changeAIDifficulty(ctl, ctl.scheduledDifficulty)
                    EXCEPT !.scheduledDifficulty = -1, !.pc = "idle",
                           !.move = MOVE_NONE]
  /\ UNCHANGED <<gameVars, searchVars, io, call>>

\* changeAIDifficulty: the test of aiThreadRunning.
ChangeAIDifficulty(difficulty) ==
  /\ ctl.pc = "idle"
  /\ ctl.instances < 1 + MaxChanges
  /\ ctl' = IF ctl.aiThreadRunning
              THEN [ctl EXCEPT !.scheduledDifficulty = difficulty]
              ELSE [ctl EXCEPT !.pc = "changeJoin", !.arg = difficulty]
  /\ UNCHANGED <<gameVars, searchVars, io, call>>

\* changeAIDifficulty from the return of join: the AI instance is replaced.
ChangeReplace ==
  /\ ctl.pc = "changeJoin"
  /\ JoinReturns
  /\ ctl' = [changeAIDifficulty(ctl, ctl.arg) EXCEPT !.pc = "idle", !.arg = 0]
  /\ UNCHANGED <<gameVars, searchVars, io, call>>
(***************************************************************************)
(* Transposition table called on its own                                   *)
(***************************************************************************)
IdleTTCall ==
  [op |-> "none", hash |-> {}, depth |-> 0, alpha |-> 0, beta |-> 0,
   score |-> 0, bound |-> BOUND_EXACT, bestMove |-> MOVE_NONE, age |-> 0,
   before |-> <<>>, hit |-> FALSE]

\* Two hashes of the same slot and one of another slot.
TTHashes == {{1, 30}, {1, 31}, {2, 40}}

TTDepths == {1, 2, 4}

\* What tt.probe is called with beside these: the hash 0 and the depth 0
\* of a leaf.
TTProbeHashes == TTHashes \cup {{}}

TTProbeDepths == TTDepths \cup {0}

\* What tt.store is called with: the first hash at every depth with every
\* bound, the second hash of the same slot at every depth, the hash of the
\* other slot once.  The score is 5.
TTStores ==
  {[hash |-> {1, 30}, depth |-> d, bound |-> b[1], bestMove |-> b[2]] :
     d \in TTDepths,
     b \in {<<BOUND_EXACT, 19>>, <<BOUND_LOWER, MOVE_NONE>>, <<BOUND_UPPER, 19>>}}
  \cup {[hash |-> {1, 31}, depth |-> d, bound |-> BOUND_EXACT, bestMove |-> 20] :
          d \in TTDepths}
  \cup {[hash |-> {2, 40}, depth |-> 1, bound |-> BOUND_EXACT, bestMove |-> 21]}

\* Windows (alpha, beta) around the stored score 5.
TTWindows == {<<0, 5>>, <<0, 6>>, <<5, 9>>, <<4, 9>>}

\* tt.store(hash, depth, score, bound, bestMove).
TTStore(hash, depth, score, bound, bestMove) ==
  /\ tt' = [tt EXCEPT !.table = store(tt.table, tt.currentAge, hash, depth,
                                      score, bound, bestMove)]
  /\ call' = [IdleTTCall EXCEPT !.op = "store", !.hash = hash,
                                !.depth = depth, !.score = score,
                                !.bound = bound, !.bestMove = bestMove,
                                !.age = tt.currentAge, !.before = tt.table]
  /\ UNCHANGED <<gameVars, ai, srch, sboard, stack, ret, eng, timeUp, obs, io, ctl>>

\* tt.probe(hash, depth, alpha, beta, ttScore, ttMove) as negamax calls it:
\* ttMove is MOVE_NONE and ttScore holds whatever the stack held.
TTProbe(hash, depth, alpha, beta, ttScore) ==
  /\ call' = [IdleTTCall EXCEPT
                !.op = "probe", !.hash = hash, !.depth = depth,
                !.alpha = alpha, !.beta = beta,
                !.score = probe(tt.table, hash, depth, alpha, beta, ttScore,
                                MOVE_NONE).score,
                !.bestMove = probe(tt.table, hash, depth, alpha, beta, ttScore,
                                   MOVE_NONE).bestMove,
                !.hit = probe(tt.table, hash, depth, alpha, beta, ttScore,
                              MOVE_NONE).hit,
                !.before = <<ttScore, MOVE_NONE>>]
  /\ UNCHANGED <<gameVars, searchVars, io, ctl>>

\* tt.newSearch().
TTNewSearch ==
  /\ tt.currentAge < MaxAge
  /\ tt' = [tt EXCEPT !.currentAge = newSearch(tt.currentAge)]
  /\ call' = [IdleTTCall EXCEPT !.op = "newSearch"]
  /\ UNCHANGED <<gameVars, ai, srch, sboard, stack, ret, eng, timeUp, obs, io, ctl>>

\* Games given to addGame, as loadWTBFile decodes them (a pass takes no
\* byte of a record): a game black wins without a white disc left, short
\* games won by black, by white and drawn, a game of more moves than
\* BOOK_MAX_DEPTH, and games where black has to pass after the eighth move
\* (white plays 16 and then 34).
GameInputs ==
  {[moves |-> <<37, 43, 34, 29, 52, 45, 38, 44, 20>>, blackScore |-> 64],
   [moves |-> <<37, 43, 34>>, blackScore |-> 40],
   [moves |-> <<37, 43, 34, 29>>, blackScore |-> 24],
   [moves |-> <<37, 45>>, blackScore |-> 32],
   [moves |-> <<37, 45>>, blackScore |-> 20],
   [moves |-> <<26, 34, 45, 18, 33, 54, 20, 44, 10, 21, 22, 32, 63, 17>>,
    blackScore |-> 30],
   [moves |-> <<26, 18, 10, 9, 37, 2, 0, 16>>, blackScore |-> 20],
   [moves |-> <<26, 18, 10, 9, 37, 2, 0, 16, 34>>, blackScore |-> 20],
   [moves |-> <<26, 18, 10, 9, 37, 2, 0, 16, 34>>, blackScore |-> 32],
   [moves |-> <<26, 18, 10, 9, 37, 2, 0, 16, 45>>, blackScore |-> 41]}

\* loadWTBFile: addGame(moves, blackScore) for one decoded record.
AddGame(game) ==
  /\ io.loads < MaxGames
  /\ io' = [io EXCEPT !.book = addGame(io.book, game.moves, game.blackScore),
                      !.before = io.book,
                      !.loads = @ + 1]
  /\ call' = [op |-> "addGame", moves |-> game.moves,
              blackScore |-> game.blackScore]
  /\ UNCHANGED <<gameVars, searchVars, ctl>>

(***************************************************************************)
(* AIExtreme::Evaluator applied to input boards                            *)
(***************************************************************************)
\* The factor evaluate gives evaluateDiscParity for a count of empty
\* squares: 10 in its endgame branch, 30 - emptyCount below 20 empty
\* squares, and no parity term from 20 on.
discParityWeight(emptyCount) ==
  IF emptyCount <= 10 THEN 10
  ELSE IF emptyCount < 20 THEN 30 - emptyCount
  ELSE 0

\* The terms of evaluate other than disc parity.
evaluateOtherTerms(board, player) ==
  LET emptyCount == getEmptyCount(board)
  IN  IF emptyCount <= 10 THEN 0
      ELSE evaluateMobility(board, player) * WEIGHT_MOBILITY
             + evaluateCorners(board, player) * WEIGHT_CORNER
             + evaluatePositional(board, player)
             + (IF emptyCount < 30
                  THEN evaluateStability(board, player) * WEIGHT_STABILITY
                  ELSE 0)
             + (IF emptyCount > 20
                  THEN evaluateFrontier(board, player) * WEIGHT_FRONTIER
                  ELSE 0)

\* Boards of every disc count from the four of the start position to the
\* full board: the discs fill the board ring by ring from the centre, with
\* the colours of the start position continued as a chequerboard.
EvalDiscCounts == 4 .. 64

RingOf(s) ==
  LET dc == IF 2 * (s % 8) > 7 THEN 2 * (s % 8) - 7 ELSE 7 - 2 * (s % 8)
      dr == IF 2 * (s \div 8) > 7 THEN 2 * (s \div 8) - 7 ELSE 7 - 2 * (s \div 8)
  IN  IF dc > dr THEN dc ELSE dr

FillBefore(s, t) == RingOf(s) * 64 + s < RingOf(t) * 64 + t

EvalBoard(n) ==
  LET discs == {s \in Squares : Cardinality({t \in Squares : FillBefore(t, s)}) < n}
  IN  [black |-> {s \in discs : ((s % 8) + (s \div 8)) % 2 = 1},
       white |-> {s \in discs : ((s % 8) + (s \div 8)) % 2 = 0}]

EvalBoards == {EvalBoard(n) : n \in EvalDiscCounts}

\* negamax: evaluator.evaluate(board, player).
Evaluate(player) ==
  /\ call.op = "none"
  /\ call' = [op |-> "evaluate", board |-> call.board, player |-> player,
              emptyCount |-> getEmptyCount(call.board),
              score |-> evaluate(call.board, player)]
  /\ UNCHANGED <<gameVars, searchVars, io, ctl>>

UnitInit == io = NewOpeningBook /\ call = IdleCall /\ ctl = NewController

NoCall ==
  [op |-> "initModel", move |-> MOVE_NONE, ret |-> TRUE, legal |-> FALSE,
   prev |-> initModel(PLAYER_BLACK),
   pre |-> [board |-> [black |-> {}, white |-> {}], player |-> PLAYER_BLACK],
   flips |-> {}, hash |-> {}]

\* main() runs initModel on an uninitialised GameModel: initModel leaves
\* currentPlayer unset.
Init ==
  /\ \E p \in {PLAYER_BLACK, PLAYER_WHITE} : model = initModel(p)
  /\ undo = <<>>
  /\ ops = 0
  /\ last = [NoCall EXCEPT !.prev = model]
  /\ history = <<>>
  /\ SearchInit
  /\ UnitInit

LegalMoves(m) ==
  getValidMovesBitmap(getPlayerBitboard(m.board, m.currentPlayer),
                      getOpponentBitboard(m.board, m.currentPlayer))

MoveInputs(m) == LegalMoves(m) \cup ProbeSquares

StartModel ==
  /\ model' = startModel(model)
  /\ undo' = <<>>
  /\ last' = [NoCall EXCEPT !.op = "startModel", !.prev = model]
  /\ history' = <<>>
  /\ UNCHANGED ops
  /\ UNCHANGED <<searchVars, unitVars>>

PlayMove(move) ==
  /\ ops < MaxOps
  /\ LET r == playMove(model, move)
     IN  /\ model' = r.model
         /\ last' = [NoCall EXCEPT !.op = "playMove", !.move = move,
                                   !.ret = r.ret, !.prev = model,
                                   !.legal = move \in LegalMoves(model)]
  /\ ops' = ops + 1
  /\ history' = Append(history, move)
  /\ UNCHANGED undo
  /\ UNCHANGED <<searchVars, unitVars>>

\* The make step of the searches: flips, makeMove and the incremental hash
\* (rootSearch and negamax of AIExtreme::SearchEngine).
MakeMove(move) ==
  /\ ops < MaxOps
  /\ Len(undo) < MaxUndo
  /\ LET player == model.currentPlayer
         hash == computeHash(model.board, player)
         playerBB == getPlayerBitboard(model.board, player)
         opponentBB == getOpponentBitboard(model.board, player)
         flips == calculateFlips(playerBB, opponentBB, move)
         r == makeMove(model.board, player, move)
         nextHash == updateHash(hash, move, flips, player)
     IN  /\ model' = [model EXCEPT !.board = r.board,
                                   !.currentPlayer = r.currentPlayer]
         /\ undo' = <<[state |-> r.state,
                       pre |-> [board |-> model.board, player |-> player]]>>
                      \o undo
         /\ last' = [NoCall EXCEPT !.op = "makeMove", !.move = move,
                                   !.prev = model, !.flips = flips,
                                   !.legal = move \in LegalMoves(model),
                                   !.hash = nextHash]
  /\ ops' = ops + 1
  /\ UNCHANGED history
  /\ UNCHANGED <<searchVars, unitVars>>

UnmakeMove ==
  /\ undo # <<>>
  /\ LET r == unmakeMove(model.board, model.currentPlayer, Head(undo).state)
     IN  /\ model' = [model EXCEPT !.board = r.board,
                                   !.currentPlayer = r.currentPlayer]
         /\ last' = [NoCall EXCEPT !.op = "unmakeMove", !.prev = model,
                                   !.pre = Head(undo).pre]
  /\ undo' = Tail(undo)
  /\ UNCHANGED <<ops, history>>
  /\ UNCHANGED <<searchVars, unitVars>>

Next ==
  \/ StartModel
  \/ \E move \in MoveInputs(model) : PlayMove(move)
  \/ \E move \in MoveInputs(model) : MakeMove(move)
  \/ UnmakeMove

Spec == Init /\ [][Next]_vars

\* The same operations called with legal moves only.
NextLegal ==
  \/ StartModel
  \/ \E move \in LegalMoves(model) : PlayMove(move)
  \/ \E move \in LegalMoves(model) : MakeMove(move)
  \/ UnmakeMove

SpecLegal == Init /\ [][NextLegal]_vars

\* The model after the controller applied the moves of a line from
\* element i on, each with playMove.
RECURSIVE PlayAll(_, _, _)
PlayAll(m, line, i) ==
  IF i > Len(line) THEN m
  ELSE CHOOSE r \in {PlayAll(n, line, i + 1) :
                       n \in {playMove(m, line[i]).model}} : TRUE

\* The controller starts a game while no AI decision is pending.
StartLine ==
  /\ srch.pc = "idle"
  /\ model.gameOver
  /\ history = <<>>
  /\ StartModel

\* The controller plays the moves of an opening line from the starting
\* position; every move of a line is legal where it is played.
PlayLine ==
  /\ srch.pc = "idle"
  /\ ~model.gameOver
  /\ history = <<>>
  /\ \E line \in Lines :
       LET prev == PlayAll(model, SubSeq(line, 1, Len(line) - 1), 1)
           move == line[Len(line)]
           r == playMove(prev, move)
       IN  /\ model' = r.model
           /\ last' = [NoCall EXCEPT !.op = "playMove", !.move = move,
                                     !.ret = r.ret, !.prev = prev,
                                     !.legal = move \in LegalMoves(prev)]
           /\ history' = line
  /\ UNCHANGED <<undo, ops>>
  /\ UNCHANGED <<searchVars, unitVars>>

\* The steps of a running Extreme search; none touches the game.
NextSearch ==
  \/ StartLine
  \/ PlayLine
  \/ \E difficulty \in {AI_EASY, AI_NORMAL, AI_HARD, AI_EXTREME} :
       CreateAI(difficulty)
  \/ \E limit \in NodeLimits \cup {0} : SetNodeLimit(limit)
  \/ EasyGetBestMove
  \/ NormalGetBestMove
  \/ HardGetBestMove
  \/ ExtremeGetBestMove
  \/ SearchLoop /\ UNCHANGED <<gameVars, unitVars>>
  \/ RootLoop /\ UNCHANGED <<gameVars, unitVars>>
  \/ RootAfterChild /\ UNCHANGED <<gameVars, unitVars>>
  \/ NegamaxEnter /\ UNCHANGED <<gameVars, unitVars>>
  \/ NegamaxLoop /\ UNCHANGED <<gameVars, unitVars>>
  \/ NegamaxAfterChild /\ UNCHANGED <<gameVars, unitVars>>
  \/ NegamaxAfterPass /\ UNCHANGED <<gameVars, unitVars>>
  \/ SearchAfterRoot /\ UNCHANGED <<gameVars, unitVars>>
  \/ ExtremeFinish /\ UNCHANGED <<gameVars, unitVars>>

SpecSearch == Init /\ [][NextSearch]_vars

\* The opening book loading its files.
NextBook == \E file \in BookFiles : LoadFile(file)

InitBook == Init /\ model.currentPlayer = PLAYER_BLACK

SpecBook == InitBook /\ [][NextBook]_vars

\* The board functions applied to the input boards.
InitBoards ==
  /\ model = initModel(PLAYER_BLACK)
  /\ undo = <<>>
  /\ ops = 0
  /\ last = [NoCall EXCEPT !.prev = model]
  /\ history = <<>>
  /\ SearchInit
  /\ io = NewOpeningBook
  /\ ctl = NewController
  /\ call \in {[IdleCall EXCEPT !.board = b] : b \in BoardInputs}

NextBoards ==
  \/ \E player \in {PLAYER_BLACK, PLAYER_WHITE} : GetValidMovesBitmap(player)
  \/ \E player \in {PLAYER_BLACK, PLAYER_WHITE} : IsTerminal(player)
  \/ \E player \in {PLAYER_BLACK, PLAYER_WHITE} : \E move \in Squares :
       CalculateFlips(player, move)

SpecBoards == InitBoards /\ [][NextBoards]_vars

\* The controller and its worker thread on a started game.
InitCtl ==
  /\ model = startModel(initModel(PLAYER_BLACK))
  /\ undo = <<>>
  /\ ops = 0
  /\ last = [NoCall EXCEPT !.prev = model]
  /\ history = <<>>
  /\ SearchInit
  /\ UnitInit

NextCtl ==
  \/ StartAIThinking
  \/ StartAIThinkingLaunch
  \/ CancelAIIfRunning
  \/ CancelClearFlag
  \/ CancelJoin
  \/ CheckAndApplyAIMove
  \/ CheckPlayMove
  \/ CheckJoinAndApply
  \/ \E difficulty \in {AI_EASY, AI_HARD} : ChangeAIDifficulty(difficulty)
  \/ ChangeReplace
  \/ \E w \in DOMAIN ctl.workers : WorkerCopy(w)
  \/ \E w \in DOMAIN ctl.workers : WorkerCall(w)
  \/ \E w \in DOMAIN ctl.workers : WorkerReturn(w)
  \/ \E w \in DOMAIN ctl.workers : WorkerStore(w)
  \/ \E w \in DOMAIN ctl.workers : WorkerExit(w)

SpecCtl == InitCtl /\ [][NextCtl]_vars

\* The transposition table called on its own.
InitTT ==
  /\ model = initModel(PLAYER_BLACK)
  /\ undo = <<>>
  /\ ops = 0
  /\ last = [NoCall EXCEPT !.prev = model]
  /\ history = <<>>
  /\ SearchInit
  /\ io = NewOpeningBook
  /\ ctl = NewController
  /\ call = IdleTTCall

NextTT ==
  \/ \E s \in TTStores : TTStore(s.hash, s.depth, 5, s.bound, s.bestMove)
  \/ \E hash \in TTProbeHashes, depth \in TTProbeDepths, w \in TTWindows :
       TTProbe(hash, depth, w[1], w[2], 77)
  \/ TTNewSearch

SpecTT == InitTT /\ [][NextTT]_vars

\* The opening book taking games one by one.
NextGames == \E game \in GameInputs : AddGame(game)

SpecGames == InitBook /\ [][NextGames]_vars

\* book.find(hash) of OpeningBook::probe: the lookup adds nothing to the map.
bookFind(book, hash) == [found |-> hash \in DOMAIN book, book |-> book]

\* Positions the book is asked about: the start position, the positions
\* along the line 37, 43, 34, the position after 26, and the start
\* position with white to move.
ProbePositions ==
  {[board |-> PlayAll(startModel(initModel(PLAYER_BLACK)), line, 1).board,
    player |-> PlayAll(startModel(initModel(PLAYER_BLACK)), line, 1).currentPlayer] :
     line \in {<<>>, <<37>>, <<37, 43>>, <<37, 43, 34>>, <<26>>}}
  \cup {[board |-> [black |-> {35, 28}, white |-> {27, 36}],
         player |-> PLAYER_WHITE]}

ProbeMoveCounts == {1, BOOK_MAX_DEPTH, BOOK_MAX_DEPTH + 1}

\* AIExtreme::getBestMove: book->probe(board, player, moveCount).
BookProbe(position, moveCount) ==
  /\ \E result \in bookProbe(io.book, position.board, position.player, moveCount) :
       call' = [op |-> "probe", board |-> position.board,
                player |-> position.player, moveCount |-> moveCount,
                result |-> result, before |-> io.book]
  /\ io' = [io EXCEPT !.book =
              bookFind(io.book, computeHash(position.board, position.player)).book]
  /\ UNCHANGED <<gameVars, searchVars, ctl>>

\* The opening book of AIExtreme after its constructor loaded the games of
\* BookGames, then taking games and answering probes.
InitProbe ==
  /\ model = initModel(PLAYER_BLACK)
  /\ undo = <<>>
  /\ ops = 0
  /\ last = [NoCall EXCEPT !.prev = model]
  /\ history = <<>>
  /\ SearchInit
  /\ io = [NewOpeningBook EXCEPT !.book = LoadedBook]
  /\ call = IdleCall
  /\ ctl = NewController

NextProbe ==
  \/ \E game \in GameInputs : AddGame(game)
  \/ \E position \in ProbePositions : \E moveCount \in ProbeMoveCounts :
       BookProbe(position, moveCount)

SpecProbe == InitProbe /\ [][NextProbe]_vars

\* The evaluator applied to the input boards.
InitEval ==
  /\ model = initModel(PLAYER_BLACK)
  /\ undo = <<>>
  /\ ops = 0
  /\ last = [NoCall EXCEPT !.prev = model]
  /\ history = <<>>
  /\ SearchInit
  /\ io = NewOpeningBook
  /\ ctl = NewController
  /\ call \in {[IdleCall EXCEPT !.board = b] : b \in EvalBoards}

NextEval == \E player \in {PLAYER_BLACK, PLAYER_WHITE} : Evaluate(player)

SpecEval == InitEval /\ [][NextEval]_vars

(***************************************************************************)
(* One getBestMove of AIExtreme from its call to its return                *)
(***************************************************************************)
\* A game of 57 moves without a pass: three squares are empty and white,
\* to move, has three legal moves.
EndgameLine ==
  <<44, 43, 18, 29, 51, 34, 30, 22, 26, 38, 33, 50, 37, 32, 40, 59, 24, 53,
    45, 19, 31, 10, 52, 20, 46, 61, 25, 17, 12, 39, 41, 21, 47, 54, 42, 48,
    11, 3, 2, 1, 58, 9, 55, 63, 15, 16, 23, 7, 13, 14, 5, 6, 60, 62, 8, 0,
    49>>

\* The games played before the AI is asked for a move.
DeepeningLines == Lines \cup {EndgameLine}

\* main() and the controller: AIExtreme is created, a node limit is set
\* and a game was played up to the position the AI is asked about.
InitDeepening ==
  /\ \E line \in DeepeningLines :
       /\ model = PlayAll(startModel(initModel(PLAYER_BLACK)), line, 1)
       /\ history = line
  /\ undo = <<>>
  /\ ops = 0
  /\ last = NoCall
  /\ ai = NewAI(AI_EXTREME, LoadedBook)
  /\ srch = IdleSearch
  /\ sboard = NoBoard
  /\ stack = <<>>
  /\ ret = NoRet
  /\ \E limit \in NodeLimits : eng = NewEngine(limit)
  /\ tt = NewTT
  /\ timeUp = FALSE
  /\ obs = NoObs
  /\ UnitInit

\* The steps of getBestMove of AIExtreme.
NextDeepening ==
  \/ ExtremeGetBestMove
  \/ SearchLoop /\ UNCHANGED <<gameVars, unitVars>>
  \/ RootLoop /\ UNCHANGED <<gameVars, unitVars>>
  \/ RootAfterChild /\ UNCHANGED <<gameVars, unitVars>>
  \/ NegamaxEnter /\ UNCHANGED <<gameVars, unitVars>>
  \/ NegamaxLoop /\ UNCHANGED <<gameVars, unitVars>>
  \/ NegamaxAfterChild /\ UNCHANGED <<gameVars, unitVars>>
  \/ NegamaxAfterPass /\ UNCHANGED <<gameVars, unitVars>>
  \/ SearchAfterRoot /\ UNCHANGED <<gameVars, unitVars>>
  \/ ExtremeFinish /\ UNCHANGED <<gameVars, unitVars>>

\* A step of the thread that runs getBestMove: any change of the state
\* before getBestMove has returned.  Every step of SpecDeepening is a step
\* of NextDeepening, so these are its steps.  The first disjunct implies
\* the second: it names one changed state, which TLC needs to evaluate
\* ENABLED.
ThreadStep ==
  /\ srch.pc # "done"
  /\ \/ /\ srch' = [srch EXCEPT !.pc = "done"]
        /\ UNCHANGED <<sboard, stack, ret, eng, tt, timeUp, obs, ai>>
        /\ UNCHANGED <<gameVars, unitVars>>
     \/ vars' # vars

\* getBestMove runs on one thread from its call to its return and waits
\* for nothing: while it has not returned, it takes its next step.
\* Nothing is assumed about the clock.
SpecDeepening ==
  InitDeepening /\ [][NextDeepening]_vars /\ WF_vars(ThreadStep)
(***************************************************************************)
(* Properties                                                              *)
(***************************************************************************)
Disjoint(board) == board.black \cap board.white = {}

\* C1: for disjoint masks and every square m, m is a legal move of the side
\* to move exactly when calculateFlips gives a non-empty flip set for m.
C1_LegalIffFlips ==
  Disjoint(model.board) =>
    \A p \in {PLAYER_BLACK, PLAYER_WHITE} : \A m \in Squares :
      LET playerBB == getPlayerBitboard(model.board, p)
          opponentBB == getOpponentBitboard(model.board, p)
      IN  (m \in getValidMovesBitmap(playerBB, opponentBB))
            <=> (calculateFlips(playerBB, opponentBB, m) # {})

\* C2: a playMove with a move that is not legal returns false and leaves
\* the board, the side to move and gameOver as they were.
C2_InvalidMoveRejected ==
  (last.op = "playMove" /\ ~last.legal) =>
    (last.ret = FALSE /\ model = last.prev)

\* C4: the black and white masks are disjoint in every reachable state.
C4_MasksDisjoint == Disjoint(model.board)

\* C5: unmakeMove with the snapshot makeMove returned restores both masks
\* and the side to move to their values before that makeMove.
C5_UndoLaw ==
  last.op = "unmakeMove" =>
    /\ model.board = last.pre.board
    /\ model.currentPlayer = last.pre.player

\* C5 witness: an unmakeMove that changed the board of a started game.
C5_Witness ==
  /\ last.op = "unmakeMove"
  /\ last.prev.board # model.board
  /\ Cardinality(last.prev.board.black) + Cardinality(last.prev.board.white) > 5

\* C6: after a legal move the incrementally updated hash equals the hash
\* computed from scratch for the new board and the new side to move.
C6_HashIncremental ==
  (last.op = "makeMove" /\ last.legal) =>
    last.hash = computeHash(model.board, model.currentPlayer)

\* C6 witness: a legal move with at least two flips whose incremental hash
\* equals the hash computed from scratch.
C6_Witness ==
  /\ last.op = "makeMove"
  /\ last.legal
  /\ Cardinality(last.flips) >= 2
  /\ last.hash = computeHash(model.board, model.currentPlayer)

\* C10: on return from every rootSearch and negamax call the board equals
\* the board at entry to that call.
C10_BoardRestored == ret.valid => sboard = ret.entry

\* C10 witness: a negamax call that returned through a beta cutoff with
\* the board as it was at entry.
C10_Witness ==
  /\ ret.valid
  /\ ret.kind = "negamax"
  /\ ret.path = "cutoff"
  /\ sboard = ret.entry

\* C3: getBestMove returns MOVE_NONE exactly when the side to move has no
\* legal move, and a legal square otherwise.
C3_BestMoveLegal ==
  srch.pc = "done" =>
    IF LegalMoves(model) = {} THEN srch.result = MOVE_NONE
    ELSE srch.result \in LegalMoves(model)

\* C3 witness: Extreme answered with a legal move after the node budget
\* ran out.
C3_Witness ==
  /\ srch.pc = "done"
  /\ ai.tier = AI_EXTREME
  /\ eng.nodesSearched >= eng.maxNodesLimit
  /\ srch.result \in LegalMoves(model)

\* C9: a value negamax returns for a node cut short by the budget is not
\* the initial sentinel -INFINITY_SCORE.
C9_NoSentinelOnBudget ==
  (ret.valid /\ ret.kind = "negamax" /\ ret.cut) => ret.value # -INFINITY_SCORE

Sign(x) == IF x > 0 THEN 1 ELSE IF x < 0 THEN -1 ELSE 0

\* C7: the score negamax gives a terminal position has the sign of the
\* disc difference of the evaluated side, and for a decided game its
\* magnitude exceeds every score given to a non-terminal position.
C7_TerminalScoreDominates ==
  (ret.valid /\ ret.kind = "negamax" /\ ret.terminal) =>
    LET diff == getScoreDiff(ret.entry, ret.player)
    IN  /\ Sign(ret.value) = Sign(diff)
        /\ diff # 0 => Abs(ret.value) > obs.maxHeur

\* C8: when the time budget expired while rootSearch was iterating over
\* the root moves, search returns the best move of the last iteration that
\* examined every root move.
C8_IncompleteIterationDiscarded ==
  (srch.pc \in {"finished", "done"} /\ obs.cutByTime
     /\ obs.completeBest # MOVE_NONE) =>
    srch.bestMove = obs.completeBest


\* The entry a negamax call at the head of its body finds in its slot.
EntryAtTop == TTSlot(tt.table, getIndex(Top.hash))

\* A negamax call is at its first line and the table holds an EXACT entry
\* of the same hash stored at the requested depth or deeper.
UsableExactHit ==
  /\ stack # <<>>
  /\ Top.kind = "negamax"
  /\ Top.phase = "enter"
  /\ EntryAtTop.zobristKey = Top.hash
  /\ EntryAtTop.depth >= Top.depth
  /\ EntryAtTop.bound = BOUND_EXACT

\* C11 (first half): on a usable EXACT hit negamax returns the stored score
\* at once: no move is generated, no child is called, the table is unchanged.
C11_HitReturnsStored ==
  [][(UsableExactHit /\ NegamaxEnter) =>
       /\ ret'.valid
       /\ ret'.path = "tthit"
       /\ ret'.value = EntryAtTop.score
       /\ stack' = Tail(stack)
       /\ tt' = tt]_vars

\* C11: on a usable EXACT hit negamax returns the stored score at once
\* without generating moves or calling a child, and the node counter does
\* not increase.
C11_HitNoNodeCounted ==
  [][(UsableExactHit /\ NegamaxEnter) =>
       /\ ret'.value = EntryAtTop.score
       /\ stack' = Tail(stack)
       /\ eng'.nodesSearched = eng.nodesSearched]_vars

\* A record loadWTBFile accepts: score byte at most 64 and a first move
\* byte that decodes to a square.
ValidRecord(gameData) ==
  gameData.score <= 64 /\ decodeWThorMove(GameByte(gameData, 8)) # MOVE_NONE

\* The records of a file that are read: complete, and within the count of
\* the header.
RecordsRead(file) ==
  IF file.open /\ file.headerBytes = 16
    THEN SubSeq(file.records, 1, Min2(file.gameCount, Len(file.records)))
    ELSE <<>>

RECURSIVE AddValid(_, _)
AddValid(book, records) ==
  IF records = <<>> THEN book
  ELSE AddValid(addGame(book, DecodeMoves(Head(records), 8, <<>>),
                        Head(records).score), Tail(records))

\* C12: loadFile reports the number of valid records among the complete
\* records it read, whatever count the header declares, and the book is the
\* book before the load with exactly those records added in file order;
\* records that are cut, have a score byte above 64 or no decodable move
\* add nothing.
C12_LoadCountsValidRecords ==
  io.loads > 0 =>
    /\ io.loaded = Len(SelectSeq(RecordsRead(io.file), ValidRecord))
    /\ io.book = AddValid(io.before, SelectSeq(RecordsRead(io.file), ValidRecord))

\* C12 witness: a header of 10 games, two complete records and a cut third
\* one; the first record has score byte 65, the second is loaded.
C12_Witness ==
  /\ io.loads > 0
  /\ io.file.gameCount = 10
  /\ Len(io.file.records) = 2
  /\ io.file.tailBytes > 0
  /\ io.file.records[1].score > 64
  /\ ValidRecord(io.file.records[2])
  /\ io.loaded = 1
  /\ io.book # io.before

\* The legal moves of side p on a board.
MovesOfSide(board, p) ==
  getValidMovesBitmap(getPlayerBitboard(board, p), getOpponentBitboard(board, p))

\* The flips side p gets for a move on a board.
FlipsOfSide(board, p, move) ==
  calculateFlips(getPlayerBitboard(board, p), getOpponentBitboard(board, p), move)

\* C13: in the position startModel sets up each side has exactly 4 legal
\* moves and each of them flips exactly 1 disc.
C13_StartPositionMoves ==
  last.op = "startModel" =>
    \A p \in {PLAYER_BLACK, PLAYER_WHITE} :
      /\ Cardinality(MovesOfSide(model.board, p)) = 4
      /\ \A move \in MovesOfSide(model.board, p) :
           Cardinality(FlipsOfSide(model.board, p, move)) = 1

\* C13 witness: startModel was called; black can play 19, 26, 37, 44 and
\* white 20, 29, 34, 43, and black's 19 flips 27.
C13_Witness ==
  /\ last.op = "startModel"
  /\ MovesOfSide(model.board, PLAYER_BLACK) = {19, 26, 37, 44}
  /\ MovesOfSide(model.board, PLAYER_WHITE) = {20, 29, 34, 43}
  /\ FlipsOfSide(model.board, PLAYER_BLACK, 19) = {27}

\* Reference rules on (column, row) coordinates.
OnBoard(c, r) == c >= 0 /\ c <= 7 /\ r >= 0 /\ r <= 7

\* The discs a move at (c, r) turns in direction (dc, dr): the run of
\* opponent discs next to it that ends at a disc of the player.
RefRun(player, opponent, c, r, dc, dr) ==
  UNION {{(r + j * dr) * 8 + c + j * dc : j \in 1 .. k - 1} :
           k \in {n \in 2 .. 7 :
                    /\ OnBoard(c + n * dc, r + n * dr)
                    /\ ((r + n * dr) * 8 + c + n * dc) \in player
                    /\ \A j \in 1 .. n - 1 :
                         ((r + j * dr) * 8 + c + j * dc) \in opponent}}

RefFlips(player, opponent, move) ==
  UNION {RefRun(player, opponent, move % 8, move \div 8, d[1], d[2]) :
           d \in ({-1, 0, 1} \X {-1, 0, 1}) \ {<<0, 0>>}}

\* The squares where side p may move by the rules: empty, and at least one
\* disc is turned.
RefLegal(board, p) ==
  {m \in Squares \ (board.black \cup board.white) :
     RefFlips(getPlayerBitboard(board, p), getOpponentBitboard(board, p), m) # {}}

\* C14: on a board without empty squares getValidMovesBitmap is empty for
\* both sides and isTerminal is true for either side to move; on every board
\* isTerminal is true exactly when neither side has a legal move.
C14_TerminalIffNoMoves ==
  /\ (call.op = "getValidMovesBitmap"
        /\ call.board.black \cup call.board.white = Squares)
       => call.bitmap = {}
  /\ call.op = "getValidMovesBitmap"
       => call.bitmap = RefLegal(call.board, call.player)
  /\ call.op = "isTerminal"
       => (call.flag <=> (RefLegal(call.board, PLAYER_BLACK) = {}
                            /\ RefLegal(call.board, PLAYER_WHITE) = {}))

\* C14 witness: isTerminal answered true for a board without empty squares
\* on which black holds the four corners and white holds discs too.
C14_Witness ==
  /\ call.op = "isTerminal"
  /\ call.board.black \cup call.board.white = Squares
  /\ CORNERS \subseteq call.board.black
  /\ call.board.white # {}
  /\ call.flag

\* C18: for disjoint masks and an empty move square calculateFlips equals
\* the flips of the reference rules on (column, row) coordinates; no run
\* goes over the a/h file boundary or past rank 1 or 8.
C18_FlipsMatchReference ==
  (call.op = "calculateFlips" /\ Disjoint(call.board)
     /\ call.move \notin call.board.black \cup call.board.white) =>
    call.bitmap = RefFlips(getPlayerBitboard(call.board, call.player),
                           getOpponentBitboard(call.board, call.player),
                           call.move)

\* C18 witness: a move on corner h1 that turns the six discs of rank 1
\* up to the player's disc on corner a1, as the reference rules say.
C18_Witness ==
  /\ call.op = "calculateFlips"
  /\ call.move = 7
  /\ call.move \notin call.board.black \cup call.board.white
  /\ call.bitmap = {1, 2, 3, 4, 5, 6}
  /\ call.bitmap = RefFlips(getPlayerBitboard(call.board, call.player),
                            getOpponentBitboard(call.board, call.player),
                            call.move)

\* C19: calculateFlips gives the empty flip set when the move square is
\* already held by either side.
C19_OccupiedSquareNoFlips ==
  (call.op = "calculateFlips"
     /\ call.move \in call.board.black \cup call.board.white) =>
    call.bitmap = {}

\* The workers that are inside getBestMove.
Executing == {w \in DOMAIN ctl.workers : ctl.workers[w].pc = "getBestMove"}

\* C15: at most one worker executes getBestMove at a time, and the AI
\* instance a worker executes getBestMove on is the current one: it was
\* neither replaced nor destroyed.
C15_OneSearchOnLiveAI ==
  /\ Cardinality(Executing) <= 1
  /\ \A w \in Executing : ctl.workers[w].ai = ctl.currentAI

\* C15 witness: the second worker is inside getBestMove on the second AI
\* instance while a further difficulty change waits scheduled.
C15_Witness ==
  /\ Len(ctl.workers) = 2
  /\ ctl.workers[2].pc = "getBestMove"
  /\ ctl.workers[2].ai = 2
  /\ ctl.scheduledDifficulty # -1
  /\ ctl.workers[1].pc = "exited"

\* The entry in the slot of the last table call, before that call.
EntryProbed == TTSlot(tt.table, getIndex(call.hash))

\* The stored entry answers a probe: key, depth and bound allow it.
Usable(entry) ==
  /\ entry.zobristKey = call.hash
  /\ entry.depth >= call.depth
  /\ \/ entry.bound = BOUND_EXACT
     \/ entry.bound = BOUND_LOWER /\ entry.score >= call.beta
     \/ entry.bound = BOUND_UPPER /\ entry.score <= call.alpha

\* C16: probe returns true, with the stored score, exactly when the key
\* equals the hash, the stored depth is at least the requested one and the
\* bound is EXACT, LOWER with score >= beta, or UPPER with score <= alpha;
\* a matching key with a shallower depth gives false and the stored best
\* move; any other key gives false and both outputs as they were.
C16_ProbeContract ==
  call.op = "probe" =>
    /\ call.hit <=> Usable(EntryProbed)
    /\ call.hit => call.score = EntryProbed.score
    /\ (EntryProbed.zobristKey = call.hash /\ EntryProbed.depth < call.depth)
         => (~call.hit /\ call.bestMove = EntryProbed.bestMove)
    /\ EntryProbed.zobristKey # call.hash
         => (~call.hit /\ <<call.score, call.bestMove>> = call.before)

\* C16 witness: a probe deeper than the stored entry of the same key, which
\* returned false and gave the stored best move 19 with the score untouched.
C16_Witness ==
  /\ call.op = "probe"
  /\ EntryProbed.zobristKey = call.hash
  /\ EntryProbed.depth < call.depth
  /\ EntryProbed.bound = BOUND_EXACT
  /\ ~call.hit
  /\ call.bestMove = 19
  /\ call.score = call.before[1]

\* The entry the last store found in its slot, and the entry it carried.
EntryFound == TTSlot(call.before, getIndex(call.hash))

EntryGiven ==
  [zobristKey |-> call.hash, score |-> call.score, bestMove |-> call.bestMove,
   depth |-> call.depth, bound |-> call.bound, age |-> call.age]

\* The replacement rule of the table.
MustReplace(entry) ==
  \/ entry.zobristKey = {}
  \/ entry.zobristKey = call.hash /\ call.depth >= entry.depth
  \/ /\ entry.zobristKey # {}
     /\ entry.zobristKey # call.hash
     /\ (entry.age # call.age \/ call.depth > entry.depth + 2)

\* C17: store writes the slot of the hash exactly when the slot is empty,
\* or holds the same key and the new depth is at least the stored one, or
\* holds another key and its age is not the current one or the new depth
\* exceeds the stored one by more than 2; otherwise the slot stays as it
\* was, and no other slot changes.
C17_StoreReplacement ==
  call.op = "store" =>
    /\ TTSlot(tt.table, getIndex(call.hash))
         = IF MustReplace(EntryFound) THEN EntryGiven ELSE EntryFound
    /\ \A i \in (DOMAIN tt.table \cup DOMAIN call.before) \ {getIndex(call.hash)} :
         TTSlot(tt.table, i) = TTSlot(call.before, i)

\* C17 witness: a store of another key of the same slot in the same search,
\* 2 deeper than the entry found, which left that entry in place while
\* another slot holds an entry too.
C17_Witness ==
  /\ call.op = "store"
  /\ EntryFound.zobristKey # {}
  /\ EntryFound.zobristKey # call.hash
  /\ EntryFound.age = call.age
  /\ call.depth = EntryFound.depth + 2
  /\ TTSlot(tt.table, getIndex(call.hash)) = EntryFound
  /\ Cardinality(DOMAIN tt.table) = 2

\* A negamax call at its first line, above depth 0, on a board where the
\* side to move has no move.
NoMoveNode ==
  /\ stack # <<>>
  /\ Top.kind = "negamax"
  /\ Top.phase = "enter"
  /\ ~hasValidMoves(sboard, Top.player)

\* C20: in negamax a node where the side to move has no move and the
\* opponent has one is a forced pass: negamax is called for the opponent
\* on the unchanged board with depth - 1 and the window negated and
\* swapped, and its value is returned negated.  A node where neither side
\* can move returns without a recursive call.
C20_PassAndGameOver ==
  [][/\ (NoMoveNode /\ hasValidMoves(sboard, getOpponent(Top.player))
           /\ Top.depth > 0 /\ NegamaxEnter) =>
          IF ret'.valid THEN ret'.path \in {"tthit", "budget"}
          ELSE /\ Len(stack') = Len(stack) + 1
               /\ stack'[1].kind = "negamax"
               /\ stack'[1].phase = "enter"
               /\ stack'[1].player = getOpponent(Top.player)
               /\ stack'[1].depth = Top.depth - 1
               /\ stack'[1].alpha = -Top.beta
               /\ stack'[1].beta = -Top.alpha
               /\ stack'[1].entry = sboard
               /\ stack'[2].phase = "waitpass"
               /\ sboard' = sboard
     /\ (stack # <<>> /\ Top.phase = "waitpass" /\ NegamaxAfterPass) =>
          /\ ret'.value = -ret.value
          /\ ret'.entry = sboard
          /\ sboard' = sboard
     /\ (NoMoveNode /\ ~hasValidMoves(sboard, getOpponent(Top.player))
           /\ NegamaxEnter) =>
          /\ ret'.valid
          /\ stack' = Tail(stack)]_vars

\* C20 witness: negamax returned from a forced pass on a board where the
\* side to move had no move and the opponent had one.
C20_Witness ==
  /\ ret.valid
  /\ ret.kind = "negamax"
  /\ ret.path = "pass"
  /\ ~hasValidMoves(ret.entry, ret.player)
  /\ hasValidMoves(ret.entry, getOpponent(ret.player))
  /\ sboard = ret.entry

InList(move, moves) == \E i \in 1 .. Len(moves) : moves[i] = move

\* The move the transposition table hands to the negamax call at the top
\* of the stack (the ttMove output of its probe).
NodeTTMove ==
  probe(tt.table, Top.hash, Top.depth, Top.alpha, Top.beta, 0, MOVE_NONE).bestMove

\* negamax reaches the head of its loop with its ordered move list.
NegamaxOrders ==
  /\ NegamaxEnter
  /\ Len(stack') = Len(stack)
  /\ Head(stack').phase = "loop"

\* rootSearch reaches the head of its loop with its ordered move list.
RootOrders ==
  /\ SearchLoop
  /\ stack' # <<>>

\* C21: when the move list of a node holds the cached best move of the
\* transposition table or the best root move of the previous iteration,
\* the first move explored after ordering is one of these.
C21_CachedMoveFirst ==
  [][/\ NegamaxOrders =>
          LET moves == Head(stack').moves
          IN  (InList(NodeTTMove, moves) \/ InList(eng.pvMove, moves))
                => moves[1] \in {NodeTTMove, eng.pvMove}
     /\ RootOrders =>
          LET moves == Head(stack').moves
              ttMove == ttGetBestMove(tt.table, Head(stack').hash)
          IN  (InList(ttMove, moves) \/ InList(eng.pvMove, moves))
                => moves[1] \in {ttMove, eng.pvMove}]_vars

\* C21, the root alone: the best root move of the previous iteration is
\* the first move rootSearch explores.
C21_RootPvFirst ==
  [][RootOrders =>
       LET moves == Head(stack').moves
       IN  InList(eng.pvMove, moves) => moves[1] = eng.pvMove]_vars

\* C21 at the nodes of negamax: the cached best move of the transposition
\* table is the first move explored.
C21_TTMoveFirst ==
  [][NegamaxOrders =>
       LET moves == Head(stack').moves
       IN  InList(NodeTTMove, moves) => moves[1] = NodeTTMove]_vars

\* The game as it was played by the rules: the board and the side to move
\* before each of its moves, a side without a legal move passing.
RECURSIVE PlayedTurns(_, _, _, _)
PlayedTurns(moves, i, board, player) ==
  IF i > Len(moves) THEN <<>>
  ELSE LET mover == IF RefLegal(board, player) = {} THEN getOpponent(player)
                    ELSE player
           flips == RefFlips(getPlayerBitboard(board, mover),
                             getOpponentBitboard(board, mover), moves[i])
           next == IF mover = PLAYER_BLACK
                     THEN [black |-> board.black \cup {moves[i]} \cup flips,
                           white |-> board.white \ flips]
                     ELSE [black |-> board.black \ flips,
                           white |-> board.white \cup {moves[i]} \cup flips]
       IN  <<[board |-> board, player |-> mover]>>
             \o PlayedTurns(moves, i + 1, next, getOpponent(mover))

TurnsOf(moves) ==
  PlayedTurns(moves, 1, [black |-> {35, 28}, white |-> {27, 36}], PLAYER_BLACK)

\* The counters of `move` in the position of `hash`; zeros when the book
\* does not hold the move.
CountersOf(book, hash, move) ==
  IF hash \notin DOMAIN book THEN NewBookMove(move)
  ELSE LET known == {k \in 1 .. Len(book[hash].moves) :
                       book[hash].moves[k].move = move}
       IN  IF known = {} THEN NewBookMove(move)
           ELSE book[hash].moves[CHOOSE k \in known : TRUE]

\* The counters after one more game with the given result for the mover.
Counted(bm, mover, blackScore) ==
  LET won == IF mover = PLAYER_BLACK THEN blackScore > 32 ELSE blackScore < 32
      lost == IF mover = PLAYER_BLACK THEN blackScore < 32 ELSE blackScore > 32
  IN  [bm EXCEPT !.gameCount = @ + 1,
                 !.winCount = IF won THEN @ + 1 ELSE @,
                 !.lossCount = IF lost THEN @ + 1 ELSE @,
                 !.drawCount = IF blackScore = 32 THEN @ + 1 ELSE @]

\* The move of turn i of the added game is counted for the side that
\* played it.
CountedForMover(i) ==
  LET turn == TurnsOf(call.moves)[i]
      hash == computeHash(turn.board, turn.player)
  IN  CountersOf(io.book, hash, call.moves[i])
        = Counted(CountersOf(io.before, hash, call.moves[i]), turn.player,
                  call.blackScore)

HasPass(moves) ==
  \E i \in 1 .. Len(moves) :
    TurnsOf(moves)[i].player # (IF i % 2 = 1 THEN PLAYER_BLACK ELSE PLAYER_WHITE)

\* C22: after addGame every move of the first BOOK_MAX_DEPTH moves of the
\* game has its game count and its win, draw or loss count raised by one,
\* win and loss taken for the side that played the move, also in games
\* where a side had to pass.
C22_CountersForMover ==
  call.op = "addGame" =>
    \A i \in 1 .. Min2(Len(call.moves), BOOK_MAX_DEPTH) : CountedForMover(i)

\* C22 for the games without a pass.
C22_CountersWithoutPass ==
  (call.op = "addGame" /\ ~HasPass(call.moves)) =>
    \A i \in 1 .. Min2(Len(call.moves), BOOK_MAX_DEPTH) : CountedForMover(i)

\* The moves of the probed position that meet BOOK_MIN_GAME_COUNT, taken
\* from the book as it was before the probe.
Qualified ==
  LET hash == computeHash(call.board, call.player)
  IN  IF hash \notin DOMAIN call.before THEN {}
      ELSE {call.before[hash].moves[k] :
              k \in {j \in 1 .. Len(call.before[hash].moves) :
                       call.before[hash].moves[j].gameCount >= BOOK_MIN_GAME_COUNT}}

\* The number of qualified moves ranked above the returned one.
RankedAbove ==
  Cardinality({q \in Qualified :
                 \E r \in Qualified : r.move = call.result /\ ScoreGreater(q, r)})

\* C23: probe returns MOVE_NONE past BOOK_MAX_DEPTH, for a position that
\* is not in the book, and when no move of the position has
\* BOOK_MIN_GAME_COUNT games; otherwise it returns a move that meets the
\* threshold with at most one such move ranked above it; the book is the
\* same after the probe.
C23_ProbeContract ==
  call.op = "probe" =>
    /\ IF call.moveCount > BOOK_MAX_DEPTH \/ Qualified = {}
         THEN call.result = MOVE_NONE
         ELSE /\ call.result \in {q.move : q \in Qualified}
              /\ RankedAbove <= 1
    /\ io.book = call.before

\* C23 witness: probe returned the second-ranked move of a position that
\* also holds a move below the threshold.
C23_Witness ==
  /\ call.op = "probe"
  /\ call.result # MOVE_NONE
  /\ RankedAbove = 1
  /\ \E k \in 1 .. Len(call.before[computeHash(call.board, call.player)].moves) :
       call.before[computeHash(call.board, call.player)].moves[k].gameCount
         < BOOK_MIN_GAME_COUNT
  /\ io.book = call.before

\* The score of evaluate is its other terms plus the disc difference times
\* discParityWeight of the empty count.
EvaluateUsesParityWeight ==
  call.op = "evaluate" =>
    call.score = evaluateOtherTerms(call.board, call.player)
                   + evaluateDiscParity(call.board, call.player)
                       * discParityWeight(call.emptyCount)

\* C24: the factor of the disc difference in evaluate does not decrease
\* as the empty squares get fewer: at the empty count of an evaluated
\* board it is at least what it is at every larger empty count.
C24_ParityWeightMonotone ==
  call.op = "evaluate" =>
    \A e1 \in call.emptyCount + 1 .. 64 :
      discParityWeight(call.emptyCount) >= discParityWeight(e1)

\* C24 above the endgame branch of evaluate: from 11 empty squares up the
\* factor does not decrease as the empty squares get fewer.
C24_MonotoneAboveEndgame ==
  (call.op = "evaluate" /\ call.emptyCount > 10) =>
    \A e1 \in call.emptyCount + 1 .. 64 :
      discParityWeight(call.emptyCount) >= discParityWeight(e1)

\* C25: every negamax call on the stack was given the hash computeHash
\* computes for its board and its side, and the call being entered finds
\* that board; this holds for calls made after a move and after a pass.
C25_HashOfPosition ==
  /\ \A k \in 1 .. Len(stack) :
       stack[k].kind = "negamax"
         => stack[k].hash = computeHash(stack[k].entry, stack[k].player)
  /\ (stack # <<>> /\ Top.kind = "negamax" /\ Top.phase = "enter")
       => sboard = Top.entry

\* C25 witness: negamax is entered through a forced pass, from a call
\* that was itself made after a move, with the hash of its position.
C25_Witness ==
  /\ Len(stack) >= 3
  /\ Top.kind = "negamax"
  /\ Top.phase = "enter"
  /\ stack[2].phase = "waitpass"
  /\ Top.hash = computeHash(sboard, Top.player)
  /\ stack[3].phase = "wait"
  /\ stack[2].entry # stack[3].entry

\* The flag of a call says maximizing exactly when the side to move of
\* its model is the maximizing player.
FlagMatchesSide(c) ==
  c.isMaximizing <=> (c.currentPlayer = c.maximizingPlayer)

\* C26: in every call of minimax and of alphaBeta on a model whose game
\* is not over, isMaximizing is true exactly when the side to move is the
\* maximizing player.
C26_FlagMatchesSideToMove ==
  /\ (srch.pc = "done" /\ ai.tier = AI_NORMAL) =>
       \A c \in AINormal_getBestMoveCalls(model) :
         ~c.gameOver => FlagMatchesSide(c)
  /\ (srch.pc = "done" /\ ai.tier = AI_HARD) =>
       \A c \in AIHard_getBestMoveCalls(model, ai.maxNodes) :
         ~c.gameOver => FlagMatchesSide(c)

\* C26 for minimax alone.
C26_NormalFlag ==
  (srch.pc = "done" /\ ai.tier = AI_NORMAL) =>
    \A c \in AINormal_getBestMoveCalls(model) : ~c.gameOver => FlagMatchesSide(c)

\* C26 for alphaBeta alone.
C26_HardFlag ==
  (srch.pc = "done" /\ ai.tier = AI_HARD) =>
    \A c \in AIHard_getBestMoveCalls(model, ai.maxNodes) :
      ~c.gameOver => FlagMatchesSide(c)


\* C27: when cancelAIIfRunning returns from its join no result of the
\* cancelled search is pending: aiMove is MOVE_NONE and aiThinking is
\* false, under every interleaving with the steps of the worker.
C27_NoResultAfterCancel ==
  [][CancelJoin => (ctl'.aiMove = MOVE_NONE /\ ~ctl'.aiThinking)]_vars

\* C27, the flag alone: aiThinking is false when cancelAIIfRunning
\* returns.
C27_NotThinkingAfterCancel ==
  [][CancelJoin => ~ctl'.aiThinking]_vars

\* C28: a probe that reports a hit finds a slot that a store wrote with
\* its hash; on a table without a store every probe, the one of hash 0
\* included, returns false and leaves score and bestMove as they were.
C28_HitOnlyForStoredHash ==
  call.op = "probe" =>
    /\ call.hit => (getIndex(call.hash) \in DOMAIN tt.table
                      /\ tt.table[getIndex(call.hash)].zobristKey = call.hash)
    /\ tt.table = <<>> =>
         (~call.hit /\ call.score = call.before[1]
            /\ call.bestMove = call.before[2])

\* C28 for the hashes other than 0.
C28_NonZeroHash ==
  (call.op = "probe" /\ call.hash # {}) =>
    /\ call.hit => (getIndex(call.hash) \in DOMAIN tt.table
                      /\ tt.table[getIndex(call.hash)].zobristKey = call.hash)
    /\ tt.table = <<>> =>
         (~call.hit /\ call.score = call.before[1]
            /\ call.bestMove = call.before[2])

\* C29: after playMove of a legal move either gameOver is true and
\* neither side has a legal move, or gameOver is as it was and the side to
\* move has a legal move; the turn is with the opponent of the mover
\* exactly when that opponent has a legal move.
C29_TurnAfterLegalMove ==
  (last.op = "playMove" /\ last.legal) =>
    LET mover == last.prev.currentPlayer
        opponent == getOpponent(mover)
    IN  /\ \/ /\ model.gameOver
              /\ RefLegal(model.board, mover) = {}
              /\ RefLegal(model.board, opponent) = {}
           \/ /\ model.gameOver = last.prev.gameOver
              /\ RefLegal(model.board, model.currentPlayer) # {}
        /\ (model.currentPlayer = opponent)
             <=> (RefLegal(model.board, opponent) # {})

\* C29 witness: a legal move after which the opponent has no legal move
\* and the mover has one: the turn stayed with the mover and the game goes
\* on.
C29_Witness ==
  /\ last.op = "playMove"
  /\ last.legal
  /\ model.currentPlayer = last.prev.currentPlayer
  /\ ~model.gameOver
  /\ RefLegal(model.board, getOpponent(model.currentPlayer)) = {}
  /\ RefLegal(model.board, model.currentPlayer) # {}

\* The frames of the running search, innermost first: every call below
\* the root is negamax with the depth of its caller less one, no depth is
\* negative, and a call with depth 0 has not gone past its first lines.
DepthDecreases ==
  /\ \A i \in 1 .. Len(stack) :
       /\ stack[i].depth >= 0
       /\ (stack[i].depth = 0) => (stack[i].phase = "enter")
       /\ IF i = Len(stack)
            THEN stack[i].kind = "root" /\ stack[i].depth = srch.depth
            ELSE /\ stack[i].kind = "negamax"
                 /\ stack[i].depth = stack[i + 1].depth - 1

\* The iteration counter of search stays within 1 .. maxDepth + 1, and
\* rootSearch runs only for depths up to maxDepth, which is 16 when at
\* most 12 squares are empty and 12 otherwise.
IterationsBounded ==
  (srch.pc \in {"loop", "inroot", "finished"}) =>
    /\ srch.maxDepth =
         IF 64 - Cardinality(model.board.black \cup model.board.white) <= 12
           THEN 16 ELSE 12
    /\ srch.depth \in 1 .. srch.maxDepth + 1
    /\ (srch.pc = "inroot") => (srch.depth <= srch.maxDepth)
    /\ eng.maxDepthReached <= srch.maxDepth

\* A search that ran has returned one of the legal moves.
MoveReturned ==
  (srch.pc = "done" /\ srch.validMoves # <<>>) =>
    InList(srch.result, srch.validMoves)

\* Before getBestMove has returned, the condition under which one of its
\* steps is taken holds: the run is nowhere left without a next step.
StepPossible ==
  (srch.pc # "done") =>
    \/ srch.pc = "idle" /\ ai.tier = AI_EXTREME /\ eng.maxNodesLimit \in NodeLimits
    \/ srch.pc = "loop"
    \/ srch.pc = "inroot" /\ stack = <<>> /\ ret.valid
    \/ srch.pc = "finished"
    \/ /\ srch.pc = "inroot"
       /\ stack # <<>>
       /\ \/ Top.phase \in {"enter", "loop"}
          \/ Top.phase \in {"wait", "waitpass"} /\ ret.valid

\* C30: every Extreme search ends and returns a move: the depth
\* goes down by one with every recursive negamax call (after a move or a
\* pass) and a call with depth 0 makes none, the deepening loop runs at
\* most maxDepth iterations (12, or 16 when at most 12 squares are empty),
\* and a search that started always reaches its return, whether or not the
\* time or the node budget is ever reached.
C30_SearchTerminates ==
  /\ [](DepthDecreases /\ IterationsBounded /\ MoveReturned /\ StepPossible)
  /\ (srch.pc = "loop") ~> (srch.pc = "done")

\* C30 witness: a search that ended after all 16 iterations on a board
\* with three empty squares, with the time never up and fewer nodes
\* searched than the limit allows.
C30_Witness ==
  /\ srch.pc = "done"
  /\ srch.maxDepth = ENDGAME_DEPTH
  /\ srch.depth = ENDGAME_DEPTH + 1
  /\ eng.maxDepthReached = ENDGAME_DEPTH
  /\ ~timeUp
  /\ eng.nodesSearched < eng.maxNodesLimit
  /\ InList(srch.result, srch.validMoves)

============================================================================
